---- MODULE Spec2Model ----
(***************************************************************************)
(* Model of the family-genome analyses of genome-dashboard                 *)
(* (src/genome-dashboard/src/utils/analysis.ts and haplogroup.ts).         *)
(*                                                                         *)
(* A JavaScript string is modelled as the sequence of its UTF-16 code      *)
(* units, each written as a one-character TLA+ string: "AG" is             *)
(* <<"A", "G">> and the empty string is << >>.                             *)
(*                                                                         *)
(* Every analysis is a loop over the array `entries`.  The elements of     *)
(* the array are read one at a time; an element is named by its position   *)
(* in the array (1, 2, ...), which stands for the identity of the entry    *)
(* object that the code pushes into its diagnostic lists.                  *)
(***************************************************************************)
EXTENDS Integers, Sequences, FiniteSets, TLC

VARIABLES
    call,    \* the exported function that is being executed
    pc,      \* its position: "loop" (reading entries) or "done" (returned)
    n,       \* number of elements of `entries` read so far
    entry,   \* the element read last (the arguments, for isConsistent)
    frame,   \* the local variables of the invocation
    result,  \* the returned value (NoResult until the function returns)
    twin     \* a second invocation of the same function on a related
             \* input: [entry, frame, result]

vars == <<call, pc, n, entry, frame, result, twin>>

----------------------------------------------------------------------------
(* Bounds *)

\* longest array `entries` that is analysed
MaxEntries == 2

\* longest array `entries` given to estimateHaplogroups
MaxMtEntries == 3

----------------------------------------------------------------------------
(* JavaScript primitives used by the analyses *)

\* UTF-16 code unit of the characters that occur in the model
CharCode ==
    [c \in {"\t", "\n", "\r", " ", "#", "+", "-", "0", "1", "2", "5", "9", "A", "C",
            "G", "M", "T", "X", "Y", "_", "a", "r", "x"} |->
        CASE c = "\t" -> 9  [] c = "\n" -> 10  [] c = "\r" -> 13
          [] c = " " -> 32  [] c = "#" -> 35
          [] c = "+" -> 43  [] c = "-" -> 45
          [] c = "0" -> 48  [] c = "1" -> 49  [] c = "2" -> 50
          [] c = "5" -> 53
          [] c = "9" -> 57  [] c = "A" -> 65  [] c = "C" -> 67
          [] c = "G" -> 71  [] c = "M" -> 77  [] c = "T" -> 84
          [] c = "X" -> 88  [] c = "Y" -> 89  [] c = "_" -> 95
          [] c = "a" -> 97  [] c = "r" -> 114
          [] c = "x" -> 120]

\* String.prototype.split(''): the array of the string's code units
split(s) == [i \in 1..Len(s) |-> s[i]]

\* arr[i] with JavaScript's 0-based index; undefined outside the array
At(arr, i) == IF (i + 1) \in DOMAIN arr THEN arr[i + 1] ELSE "undefined"

\* Array.prototype.includes
includes(arr, x) == \E i \in DOMAIN arr : arr[i] = x

\* Array.prototype.indexOf: first 0-based index of x, -1 when absent
indexOf(arr, x) ==
    IF includes(arr, x)
    THEN (CHOOSE i \in DOMAIN arr :
              arr[i] = x /\ \A j \in DOMAIN arr : arr[j] = x => i <= j) - 1
    ELSE -1

RECURSIVE sort(_)
\* Array.prototype.sort() without a comparator on an array of one-character
\* strings: ascending UTF-16 code units
sort(arr) ==
    IF Len(arr) = 0 THEN << >>
    ELSE LET i == CHOOSE i \in DOMAIN arr :
                      \A j \in DOMAIN arr :
                          /\ CharCode[arr[i]] <= CharCode[arr[j]]
                          /\ (CharCode[arr[i]] = CharCode[arr[j]] => i <= j)
         IN  <<arr[i]>> \o sort(SubSeq(arr, 1, i - 1) \o SubSeq(arr, i + 1, Len(arr)))

\* arr.splice(i, 1): the array without the element at 0-based index i
splice(arr, i) == SubSeq(arr, 1, i) \o SubSeq(arr, i + 2, Len(arr))

\* a JavaScript number that may be NaN
NaN == [nan |-> TRUE, value |-> 0]
Num(v) == [nan |-> FALSE, value |-> v]
isNaN(x) == x.nan

\* value of a digit in the given radix, -1 when the character is no digit
DigitValue(c, radix) ==
    LET code == CharCode[c] IN
    CASE code >= 48 /\ code <= 57 /\ code - 48 < radix -> code - 48
      [] radix = 16 /\ code >= 65 /\ code <= 70 -> code - 55
      [] radix = 16 /\ code >= 97 /\ code <= 102 -> code - 87
      [] OTHER -> -1

RECURSIVE SkipWhiteSpace(_)
SkipWhiteSpace(s) ==
    IF Len(s) > 0 /\ Head(s) = " " THEN SkipWhiteSpace(Tail(s)) ELSE s

RECURSIVE ParseDigits(_, _, _, _)
\* the longest prefix of s made of digits of the radix; NaN when it is empty
ParseDigits(s, radix, acc, any) ==
    IF Len(s) > 0 /\ DigitValue(Head(s), radix) >= 0
    THEN ParseDigits(Tail(s), radix, acc * radix + DigitValue(Head(s), radix), TRUE)
    ELSE IF any THEN Num(acc) ELSE NaN

\* parseInt(string) without a radix argument: leading white space, an
\* optional sign, an optional 0x/0X prefix, then the longest digit prefix
parseInt(str) ==
    LET s0 == SkipWhiteSpace(str)
        signed == Len(s0) > 0 /\ Head(s0) \in {"+", "-"}
        sign == IF Len(s0) > 0 /\ Head(s0) = "-" THEN -1 ELSE 1
        s1 == IF signed THEN Tail(s0) ELSE s0
        hex == Len(s1) >= 2 /\ s1[1] = "0" /\ s1[2] \in {"x", "X"}
        s2 == IF hex THEN Tail(Tail(s1)) ELSE s1
        r == ParseDigits(s2, IF hex THEN 16 ELSE 10, 0, FALSE)
    IN  IF isNaN(r) THEN NaN ELSE Num(sign * r.value)

----------------------------------------------------------------------------
(* Data model *)

GenotypeEntry(chromosome, father, son1, son2, mother) ==
    [rsid |-> <<"r">>, chromosome |-> chromosome, position |-> 1,
     father |-> father, son1 |-> son1, son2 |-> son2, mother |-> mother]

\* the loop variable before the first element is read
NoEntry == GenotypeEntry(<< >>, << >>, << >>, << >>, << >>)

NoResult == [returned |-> FALSE]

Alleles == {"A", "C", "G", "T"}

\* every genotype call of exactly two allele characters
TwoAlleleCalls == {<<a, b>> : a \in Alleles, b \in Alleles}

\* genotype calls given to the Mendelian analysis: no call, one, two and
\* three characters
MendelianCalls ==
    {<< >>, <<"A">>, <<"A", "A">>, <<"G", "G">>, <<"A", "A", "G">>}

\* chromosome labels: autosomes, sex chromosomes, mitochondrial, and labels
\* that are no chromosome (empty, letters, a digit followed by a letter, a
\* letter followed by a digit, a signed number)
ChromosomeLabels ==
    {<<"1">>, <<"2", "2">>, <<"X">>, <<"Y">>, <<"M", "T">>, << >>, <<"a">>,
     <<"1", "x">>, <<"x", "1">>, <<"-", "1">>}

\* entries given to analyzeMendelianConsistency: chromosome 1 with every
\* combination of calls, and every label with complete two-character calls
MendelianEntries ==
    {GenotypeEntry(<<"1">>, f, s1, s2, m) :
        f \in MendelianCalls, s1 \in MendelianCalls,
        s2 \in MendelianCalls, m \in MendelianCalls}
    \cup
    {GenotypeEntry(c, <<"A", "A">>, s1, s2, <<"A", "A">>) :
        c \in ChromosomeLabels,
        s1 \in {<<"A", "A">>, <<"G", "G">>}, s2 \in {<<"A", "A">>, <<"G", "G">>}}

\* calls of the sons given to analyzeSiblingSharing
SiblingCalls == TwoAlleleCalls \cup {<< >>, <<"A">>, <<"A", "A", "G">>}

\* entries given to analyzeSiblingSharing: chromosome 1 with every pair of
\* calls of the sons, and every label with two-character calls
SiblingEntries ==
    {GenotypeEntry(<<"1">>, <<"A", "G">>, s1, s2, <<"A", "G">>) :
        s1 \in SiblingCalls, s2 \in SiblingCalls}
    \cup
    {GenotypeEntry(c, <<"A", "G">>, s1, s2, <<"A", "G">>) :
        c \in ChromosomeLabels,
        s1 \in {<<"A", "A">>, <<"A", "G">>}, s2 \in {<<"A", "A">>, <<"A", "G">>}}

\* mitochondrial calls: no call, one character, and the same two alleles in
\* both orders
MitochondrialCalls == {<< >>, <<"A">>, <<"A", "G">>, <<"G", "A">>}

\* calls of the father in the entries given to analyzeMitochondrial
FatherCalls == {<< >>, <<"A">>}

MitochondrialEntries ==
    {GenotypeEntry(c, f, s1, s2, m) :
        c \in {<<"M", "T">>, <<"1">>}, f \in FatherCalls,
        s1 \in MitochondrialCalls, s2 \in MitochondrialCalls,
        m \in MitochondrialCalls}

\* the same entry with the father and mother fields exchanged
SwapParents(e) == [e EXCEPT !.father = e.mother, !.mother = e.father]

\* the same entry with the son1 and son2 fields exchanged
SwapSons(e) == [e EXCEPT !.son1 = e.son2, !.son2 = e.son1]

----------------------------------------------------------------------------
(* analysis.ts: isConsistent *)

\* isConsistent that tries only the first assignment (child[0] from the
\* father, child[1] from the mother)
isConsistentFirstCaseOnly(father, mother, child) ==
    LET fAlleles == split(father)
        mAlleles == split(mother)
        cAlleles == split(child)
    IN  includes(fAlleles, At(cAlleles, 0)) /\ includes(mAlleles, At(cAlleles, 1))

\* isConsistent whose second assignment looks for child[1] in the mother again
isConsistentMotherTwice(father, mother, child) ==
    LET fAlleles == split(father)
        mAlleles == split(mother)
        cAlleles == split(child)
        c1FromF == includes(fAlleles, At(cAlleles, 0))
        c2FromM == includes(mAlleles, At(cAlleles, 1))
        c1FromM == includes(mAlleles, At(cAlleles, 0))
    IN  (c1FromF /\ c2FromM) \/ (c1FromM /\ c2FromM)

isConsistent(father, mother, child) ==
    LET fAlleles == split(father)
        mAlleles == split(mother)
        cAlleles == split(child)
        c1FromF == includes(fAlleles, At(cAlleles, 0))
        c2FromM == includes(mAlleles, At(cAlleles, 1))
        c1FromM == includes(mAlleles, At(cAlleles, 0))
        c2FromF == includes(fAlleles, At(cAlleles, 1))
    IN  IF c1FromF /\ c2FromM THEN TRUE
        ELSE IF c1FromM /\ c2FromF THEN TRUE
        ELSE FALSE

TrioArgs == [father : TwoAlleleCalls, mother : TwoAlleleCalls, child : TwoAlleleCalls]

InitTrio ==
    /\ call = "isConsistent"
    /\ pc = "loop"
    /\ n = 0
    /\ entry \in TrioArgs
    /\ frame = << >>
    /\ result = NoResult
    /\ twin = [entry |-> [entry EXCEPT !.father = entry.mother, !.mother = entry.father],
               frame |-> << >>, result |-> NoResult]

\* isConsistent(father, mother, child), and isConsistent(mother, father, child)
\* as the second invocation
IsConsistentCall ==
    /\ call = "isConsistent"
    /\ pc = "loop"
    /\ pc' = "done"
    /\ result' = [returned |-> TRUE,
                  value |-> isConsistent(entry.father, entry.mother, entry.child)]
    /\ twin' = [twin EXCEPT !.result =
                  [returned |-> TRUE,
                   value |-> isConsistent(twin.entry.father, twin.entry.mother,
                                          twin.entry.child)]]
    /\ UNCHANGED <<call, n, entry, frame>>

----------------------------------------------------------------------------
(* analysis.ts: analyzeMendelianConsistency *)

\* the filter of lines 157-160 (the same filter is used by analyzeSiblingSharing)
IsAutosomal(e) ==
    /\ ~includes(<< <<"X">>, <<"Y">>, <<"M", "T">> >>, e.chromosome)
    /\ ~isNaN(parseInt(e.chromosome))

MendelianLocals == [consistent |-> 0, inconsistent |-> 0, inconsistentEntries |-> << >>]

\* MendelianBody without the `continue` after son1 fails: son2 is checked too
MendelianBodyNoContinue(f, e, idx) ==
    IF Len(e.father) = 0 \/ Len(e.mother) = 0 \/ Len(e.son1) = 0 \/ Len(e.son2) = 0
    THEN f
    ELSE IF Len(e.father) # 2 \/ Len(e.mother) # 2 \/ Len(e.son1) # 2 \/ Len(e.son2) # 2
    THEN f
    ELSE LET bad1 == ~isConsistent(e.father, e.mother, e.son1)
             bad2 == ~isConsistent(e.father, e.mother, e.son2)
             f1 == IF bad1 THEN [f EXCEPT !.inconsistent = @ + 1,
                                          !.inconsistentEntries = Append(@, idx)]
                   ELSE f
             f2 == IF bad2 THEN [f1 EXCEPT !.inconsistent = @ + 1,
                                           !.inconsistentEntries = Append(@, idx)]
                   ELSE f1
         IN  IF bad1 \/ bad2 THEN f2 ELSE [f EXCEPT !.consistent = @ + 1]

\* MendelianBody whose length check leaves out the mother
MendelianBodyMotherUnchecked(f, e, idx) ==
    IF Len(e.father) = 0 \/ Len(e.mother) = 0 \/ Len(e.son1) = 0 \/ Len(e.son2) = 0
    THEN f
    ELSE IF Len(e.father) # 2 \/ Len(e.son1) # 2 \/ Len(e.son2) # 2
    THEN f
    ELSE IF ~isConsistent(e.father, e.mother, e.son1)
    THEN [f EXCEPT !.inconsistent = @ + 1,
                   !.inconsistentEntries = Append(@, idx)]
    ELSE IF ~isConsistent(e.father, e.mother, e.son2)
    THEN [f EXCEPT !.inconsistent = @ + 1,
                   !.inconsistentEntries = Append(@, idx)]
    ELSE [f EXCEPT !.consistent = @ + 1]

\* MendelianBody that assigns 1 to `consistent` instead of incrementing it
MendelianBodyConsistentAssigned(f, e, idx) ==
    IF Len(e.father) = 0 \/ Len(e.mother) = 0 \/ Len(e.son1) = 0 \/ Len(e.son2) = 0
    THEN f
    ELSE IF Len(e.father) # 2 \/ Len(e.mother) # 2 \/ Len(e.son1) # 2 \/ Len(e.son2) # 2
    THEN f
    ELSE IF ~isConsistent(e.father, e.mother, e.son1)
    THEN [f EXCEPT !.inconsistent = @ + 1,
                   !.inconsistentEntries = Append(@, idx)]
    ELSE IF ~isConsistent(e.father, e.mother, e.son2)
    THEN [f EXCEPT !.inconsistent = @ + 1,
                   !.inconsistentEntries = Append(@, idx)]
    ELSE [f EXCEPT !.consistent = 1]

\* MendelianBody that puts an inconsistent entry at the front of the list
MendelianBodyUnshift(f, e, idx) ==
    IF Len(e.father) = 0 \/ Len(e.mother) = 0 \/ Len(e.son1) = 0 \/ Len(e.son2) = 0
    THEN f
    ELSE IF Len(e.father) # 2 \/ Len(e.mother) # 2 \/ Len(e.son1) # 2 \/ Len(e.son2) # 2
    THEN f
    ELSE IF ~isConsistent(e.father, e.mother, e.son1)
    THEN [f EXCEPT !.inconsistent = @ + 1,
                   !.inconsistentEntries = <<idx>> \o @]
    ELSE IF ~isConsistent(e.father, e.mother, e.son2)
    THEN [f EXCEPT !.inconsistent = @ + 1,
                   !.inconsistentEntries = <<idx>> \o @]
    ELSE [f EXCEPT !.consistent = @ + 1]

\* one iteration of `for (const entry of autosomal)`; idx names the entry
MendelianBody(f, e, idx) ==
    IF Len(e.father) = 0 \/ Len(e.mother) = 0 \/ Len(e.son1) = 0 \/ Len(e.son2) = 0
    THEN f
    ELSE IF Len(e.father) # 2 \/ Len(e.mother) # 2 \/ Len(e.son1) # 2 \/ Len(e.son2) # 2
    THEN f
    ELSE IF ~isConsistent(e.father, e.mother, e.son1)
    THEN [f EXCEPT !.inconsistent = @ + 1,
                   !.inconsistentEntries = Append(@, idx)]
    ELSE IF ~isConsistent(e.father, e.mother, e.son2)
    THEN [f EXCEPT !.inconsistent = @ + 1,
                   !.inconsistentEntries = Append(@, idx)]
    ELSE [f EXCEPT !.consistent = @ + 1]

\* the effect of one element of `entries`: filtered out, or one loop iteration
MendelianElement(f, e, idx) ==
    IF IsAutosomal(e) THEN MendelianBody(f, e, idx) ELSE f

\* MendelianResult whose total is the number of elements pushed and counted
\* consistent, leaving out the inconsistent ones
MendelianResultTotalConsistent(f) ==
    [returned |-> TRUE,
     totalSNPs |-> f.consistent,
     consistent |-> f.consistent,
     inconsistent |-> f.inconsistent,
     inconsistentEntries |-> f.inconsistentEntries]

\* the returned MendelianResult (lines 186-191)
MendelianResult(f) ==
    [returned |-> TRUE,
     totalSNPs |-> f.consistent + f.inconsistent,
     consistent |-> f.consistent,
     inconsistent |-> f.inconsistent,
     inconsistentEntries |-> f.inconsistentEntries]

InitMendelian ==
    /\ call = "analyzeMendelianConsistency"
    /\ pc = "loop"
    /\ n = 0
    /\ entry = NoEntry
    /\ frame = MendelianLocals
    /\ result = NoResult
    /\ twin = [entry |-> NoEntry, frame |-> MendelianLocals, result |-> NoResult]

\* the next element of `entries` is e; the second invocation reads the same
\* element with its parents exchanged
MendelianRead ==
    /\ call = "analyzeMendelianConsistency"
    /\ pc = "loop"
    /\ n < MaxEntries
    /\ \E e \in MendelianEntries :
          /\ entry' = e
          /\ frame' = MendelianElement(frame, e, n + 1)
          /\ twin' = [twin EXCEPT !.entry = SwapParents(e),
                                  !.frame = MendelianElement(@, SwapParents(e), n + 1)]
    /\ n' = n + 1
    /\ UNCHANGED <<call, pc, result>>

\* `entries` is exhausted: the function returns its report
MendelianReturn ==
    /\ call = "analyzeMendelianConsistency"
    /\ pc = "loop"
    /\ pc' = "done"
    /\ result' = MendelianResult(frame)
    /\ twin' = [twin EXCEPT !.result = MendelianResult(twin.frame)]
    /\ UNCHANGED <<call, n, entry, frame>>

----------------------------------------------------------------------------
(* analysis.ts: analyzeMitochondrial *)

MitochondrialLocals == [matches |-> 0, mismatches |-> 0, mismatchedEntries |-> << >>]

\* the filter of line 216
IsMT(e) == e.chromosome = <<"M", "T">>

\* the set of the characters of a string
Chars(str) == {str[i] : i \in DOMAIN str}

\* MitochondrialBody that compares the sets of alleles instead of the strings
MitochondrialBodyAlleleSets(f, e, idx) ==
    IF Len(e.mother) = 0 \/ Len(e.son1) = 0 \/ Len(e.son2) = 0
    THEN f
    ELSE IF Chars(e.mother) = Chars(e.son1) /\ Chars(e.mother) = Chars(e.son2)
    THEN [f EXCEPT !.matches = @ + 1]
    ELSE [f EXCEPT !.mismatches = @ + 1,
                   !.mismatchedEntries = Append(@, idx)]

\* MitochondrialBody whose skip test leaves out son2
MitochondrialBodySon2Unchecked(f, e, idx) ==
    IF Len(e.mother) = 0 \/ Len(e.son1) = 0
    THEN f
    ELSE IF e.mother = e.son1 /\ e.mother = e.son2
    THEN [f EXCEPT !.matches = @ + 1]
    ELSE [f EXCEPT !.mismatches = @ + 1,
                   !.mismatchedEntries = Append(@, idx)]

\* MitochondrialBody that skips an entry without a call of the father, as
\* the Mendelian loop does
MitochondrialBodyFatherRequired(f, e, idx) ==
    IF Len(e.father) = 0 \/ Len(e.mother) = 0 \/ Len(e.son1) = 0 \/ Len(e.son2) = 0
    THEN f
    ELSE IF e.mother = e.son1 /\ e.mother = e.son2
    THEN [f EXCEPT !.matches = @ + 1]
    ELSE [f EXCEPT !.mismatches = @ + 1,
                   !.mismatchedEntries = Append(@, idx)]

\* one iteration of `for (const entry of mtEntries)`; idx names the entry
MitochondrialBody(f, e, idx) ==
    IF Len(e.mother) = 0 \/ Len(e.son1) = 0 \/ Len(e.son2) = 0
    THEN f
    ELSE IF e.mother = e.son1 /\ e.mother = e.son2
    THEN [f EXCEPT !.matches = @ + 1]
    ELSE [f EXCEPT !.mismatches = @ + 1,
                   !.mismatchedEntries = Append(@, idx)]

\* the effect of one element of `entries`: filtered out, or one loop iteration
MitochondrialElement(f, e, idx) ==
    IF IsMT(e) THEN MitochondrialBody(f, e, idx) ELSE f

\* the returned object (lines 234-239)
MitochondrialResult(f) ==
    [returned |-> TRUE,
     total |-> f.matches + f.mismatches,
     matches |-> f.matches,
     mismatches |-> f.mismatches,
     mismatchedEntries |-> f.mismatchedEntries]

InitMitochondrial ==
    /\ call = "analyzeMitochondrial"
    /\ pc = "loop"
    /\ n = 0
    /\ entry = NoEntry
    /\ frame = MitochondrialLocals
    /\ result = NoResult
    /\ twin = [entry |-> NoEntry, frame |-> MitochondrialLocals, result |-> NoResult]

\* the next element of `entries` is e; the second invocation reads the same
\* element with another call of the father
MitochondrialRead ==
    /\ call = "analyzeMitochondrial"
    /\ pc = "loop"
    /\ n < MaxEntries
    /\ \E e \in MitochondrialEntries, father \in FatherCalls :
          /\ entry' = e
          /\ frame' = MitochondrialElement(frame, e, n + 1)
          /\ twin' = [twin EXCEPT
                        !.entry = [e EXCEPT !.father = father],
                        !.frame = MitochondrialElement(@, [e EXCEPT !.father = father], n + 1)]
    /\ n' = n + 1
    /\ UNCHANGED <<call, pc, result>>

\* `entries` is exhausted: the function returns its report
MitochondrialReturn ==
    /\ call = "analyzeMitochondrial"
    /\ pc = "loop"
    /\ pc' = "done"
    /\ result' = MitochondrialResult(frame)
    /\ twin' = [twin EXCEPT !.result = MitochondrialResult(twin.frame)]
    /\ UNCHANGED <<call, n, entry, frame>>

----------------------------------------------------------------------------
(* analysis.ts: analyzeSiblingSharing *)

\* `matches` is a sum of halves (shared / 2): the model keeps it as the number
\* of halves, so the JavaScript value is frame.matches / 2.  `shared` is the
\* value computed by the last iteration that reached line 269.
SiblingLocals == [matches |-> 0, total |-> 0, shared |-> 0]

\* a quotient of two integers, kept as numerator and denominator
Ratio(a, b) == [num |-> a, den |-> b]

\* sharedAlleles that does not remove the allele of son2 it has used
sharedAllelesNoSplice(son1, son2) ==
    LET s1 == sort(split(son1))
        s2 == sort(split(son2))
    IN  (IF indexOf(s2, At(s1, 0)) # -1 THEN 1 ELSE 0)
        + (IF includes(s2, At(s1, 1)) THEN 1 ELSE 0)

\* lines 266-282: the number of alleles of son1 that find an unused equal
\* allele of son2
sharedAlleles(son1, son2) ==
    LET s1 == sort(split(son1))
        s2 == sort(split(son2))
        idx1 == indexOf(s2, At(s1, 0))
        s2Copy == IF idx1 # -1 THEN splice(s2, idx1) ELSE s2
    IN  (IF idx1 # -1 THEN 1 ELSE 0)
        + (IF includes(s2Copy, At(s1, 1)) THEN 1 ELSE 0)

\* SiblingBody whose skip test leaves out the length of son2
SiblingBodySon2LengthUnchecked(f, e) ==
    IF Len(e.son1) = 0 \/ Len(e.son2) = 0 \/ Len(e.son1) # 2
    THEN f
    ELSE LET shared == sharedAlleles(e.son1, e.son2)
         IN  [shared |-> shared, matches |-> f.matches + shared, total |-> f.total + 1]

\* SiblingBody that adds shared instead of shared / 2 (two halves per allele)
SiblingBodyWholeShared(f, e) ==
    IF Len(e.son1) = 0 \/ Len(e.son2) = 0 \/ Len(e.son1) # 2 \/ Len(e.son2) # 2
    THEN f
    ELSE LET shared == sharedAlleles(e.son1, e.son2)
         IN  [shared |-> shared, matches |-> f.matches + 2 * shared, total |-> f.total + 1]

\* one iteration of `for (const entry of autosomal)`
SiblingBody(f, e) ==
    IF Len(e.son1) = 0 \/ Len(e.son2) = 0 \/ Len(e.son1) # 2 \/ Len(e.son2) # 2
    THEN f
    ELSE LET shared == sharedAlleles(e.son1, e.son2)
         IN  [shared |-> shared, matches |-> f.matches + shared, total |-> f.total + 1]

\* the effect of one element of `entries`: filtered out, or one loop iteration
SiblingElement(f, e) ==
    IF IsAutosomal(e) THEN SiblingBody(f, e) ELSE f

\* SiblingResult without the test total > 0: 0 / 0 when nothing was compared
SiblingResultUnguarded(f) ==
    [returned |-> TRUE,
     totalSNPs |-> f.total,
     matches |-> f.matches,
     matchPercentage |-> Ratio(f.matches * 100, 2 * f.total)]

\* the returned SiblingComparison (lines 296-300); matches in halves,
\* matchPercentage = (matches / total) * 100 as a quotient
SiblingResult(f) ==
    [returned |-> TRUE,
     totalSNPs |-> f.total,
     matches |-> f.matches,
     matchPercentage |-> IF f.total > 0 THEN Ratio(f.matches * 100, 2 * f.total)
                         ELSE Ratio(0, 1)]

InitSibling ==
    /\ call = "analyzeSiblingSharing"
    /\ pc = "loop"
    /\ n = 0
    /\ entry = NoEntry
    /\ frame = SiblingLocals
    /\ result = NoResult
    /\ twin = [entry |-> NoEntry, frame |-> SiblingLocals, result |-> NoResult]

\* the next element of `entries` is e; the second invocation reads the same
\* element with its sons exchanged
SiblingRead ==
    /\ call = "analyzeSiblingSharing"
    /\ pc = "loop"
    /\ n < MaxEntries
    /\ \E e \in SiblingEntries :
          /\ entry' = e
          /\ frame' = SiblingElement(frame, e)
          /\ twin' = [twin EXCEPT !.entry = SwapSons(e),
                                  !.frame = SiblingElement(@, SwapSons(e))]
    /\ n' = n + 1
    /\ UNCHANGED <<call, pc, result>>

\* `entries` is exhausted: the function returns its report
SiblingReturn ==
    /\ call = "analyzeSiblingSharing"
    /\ pc = "loop"
    /\ pc' = "done"
    /\ result' = SiblingResult(frame)
    /\ twin' = [twin EXCEPT !.result = SiblingResult(twin.frame)]
    /\ UNCHANGED <<call, n, entry, frame>>

----------------------------------------------------------------------------
(* haplogroup.ts: mtRules and estimateHaplogroups *)

\* Genotype calls and marker alleles are strings of characters as above;
\* haplogroup names and descriptions are only copied and compared, and are
\* written as TLA+ strings.

\* the helper m(pos, allele, weight = 1) of line 12
m(pos, allele) == [position |-> pos, allele |-> <<allele>>, weight |-> 1]

HaplogroupRule(name, markers, description) ==
    [haplogroup |-> name, chromosome |-> "MT", markers |-> markers,
     description |-> description]

\* the rule table of lines 14-76
mtRules ==
    << HaplogroupRule("H", <<m(7028, "C"), m(2706, "A")>>,
           "The most common maternal lineage in Europe."),
       HaplogroupRule("H7", <<m(7028, "C"), m(2706, "A"), m(4793, "G")>>,
           "Found across Europe, with peaks in the Near East and Basque country."),
       HaplogroupRule("H7a",
           <<m(7028, "C"), m(2706, "A"), m(4793, "G"), m(1719, "A")>>,
           "A specific subclade of H7."),
       HaplogroupRule("H7a1",
           <<m(7028, "C"), m(2706, "A"), m(4793, "G"), m(1719, "A"), m(16261, "T")>>,
           "Your Father's probable lineage."),
       HaplogroupRule("H11",
           <<m(7028, "C"), m(2706, "A"), m(8448, "C"), m(13759, "A")>>,
           "An ancient European lineage, common in Central/Eastern Europe."),
       HaplogroupRule("H11a",
           <<m(7028, "C"), m(2706, "A"), m(8448, "C"), m(13759, "A"),
             m(961, "G"), m(16293, "G")>>,
           "Widespread in Central and Eastern Europe."),
       HaplogroupRule("H11a2",
           <<m(7028, "C"), m(2706, "A"), m(8448, "C"), m(13759, "A"),
             m(961, "G"), m(16293, "G"), m(14587, "G")>>,
           "Specific branch of H11a."),
       HaplogroupRule("H11a2a2",
           <<m(8448, "C"), m(13759, "A"), m(16293, "G"), m(14587, "G"),
             m(16140, "C"), m(5585, "A"), m(15670, "C")>>,
           "Your Mother's probable lineage (Central/Eastern European)."),
       HaplogroupRule("M", <<m(10400, "T"), m(14783, "C")>>,
           "Major Asian haplogroup."),
       HaplogroupRule("A", <<m(663, "G"), m(1736, "A")>>,
           "Found in Indigenous Americas and Asia."),
       HaplogroupRule("B", <<m(8281, "d"), m(8282, "d"), m(8283, "d")>>,
           "Found in Indigenous Americas and Asia (9bp deletion).") >>

\* the value of a missing Map key; it differs from every string
Undefined == <<"undefined">>

\* truthiness of a string or undefined
Truthy(v) == v # Undefined /\ Len(v) > 0

\* Map.prototype.set and Map.prototype.get; a Map is a function on its keys
MapSet(map, key, value) ==
    [k \in (DOMAIN map) \cup {key} |-> IF k = key THEN value ELSE map[k]]

MapGet(map, key) == IF key \in DOMAIN map THEN map[key] ELSE Undefined

\* String.prototype.includes: sub occurs in str as a substring
stringIncludes(str, sub) ==
    \E i \in 0..(Len(str) - Len(sub)) : SubSeq(str, i + 1, i + Len(sub)) = sub

\* quotients: comparison and sum with an integer, denominators positive
RatioGreater(a, b) == a.num * b.den > b.num * a.den

RatioAtLeast(a, k) == a.num >= k * a.den

RatioPlus(k, a) == Ratio(k * a.den + a.num, a.den)

\* positions of the entries given to estimateHaplogroups: markers of the
\* rules H .. H11a2a2
MtPositions == {7028, 8448, 13759}

\* calls of mother and son1 in these entries, as parseGenomeData leaves them
\* (a no-call is the empty string)
MtCalls == {<< >>, <<"A">>, <<"C">>, <<"A", "C">>}

HaplogroupEntries ==
    {[GenotypeEntry(c, << >>, s1, << >>, mo) EXCEPT !.position = p] :
        c \in {<<"M", "T">>, <<"Y">>}, p \in MtPositions,
        s1 \in MtCalls, mo \in MtCalls}

\* the Map and best match of lines 91 and 103, before the first rule is
\* scanned; rule is the number of rules scanned, matches and total are the
\* counters of the rule scanned last
HaplogroupLocals(rules) ==
    [mtEntries |-> << >>,
     mtRules |-> rules,
     rule |-> 0, matches |-> 0, total |-> 0,
     bestMatch |-> [haplogroup |-> "Undetermined", matches |-> 0, total |-> 0,
                    percentage |-> Ratio(0, 1), description |-> ""]]

\* HaplogroupElement that prefers son1 and falls back to the mother
HaplogroupElementSon1First(f, e) ==
    IF e.chromosome = <<"M", "T">>
    THEN LET allele == IF Len(e.son1) > 0 /\ e.son1 # <<"-", "-">>
                       THEN e.son1 ELSE e.mother
         IN  IF Len(allele) > 0
             THEN [f EXCEPT !.mtEntries = MapSet(@, e.position, allele)]
             ELSE f
    ELSE f

\* HaplogroupElement that keeps the first call stored for a position
HaplogroupElementFirstWins(f, e) ==
    IF e.chromosome = <<"M", "T">>
    THEN LET allele == IF Len(e.mother) > 0 /\ e.mother # <<"-", "-">>
                       THEN e.mother ELSE e.son1
         IN  IF Len(allele) > 0 /\ e.position \notin DOMAIN f.mtEntries
             THEN [f EXCEPT !.mtEntries = MapSet(@, e.position, allele)]
             ELSE f
    ELSE f

\* HaplogroupElement that falls back to son2 when mother and son1 are empty
HaplogroupElementSon2Fallback(f, e) ==
    IF e.chromosome = <<"M", "T">>
    THEN LET allele == IF Len(e.mother) > 0 /\ e.mother # <<"-", "-">>
                       THEN e.mother
                       ELSE IF Len(e.son1) > 0 THEN e.son1 ELSE e.son2
         IN  IF Len(allele) > 0
             THEN [f EXCEPT !.mtEntries = MapSet(@, e.position, allele)]
             ELSE f
    ELSE f

\* lines 95-99: the effect of one element of `entries` on the Map
HaplogroupElement(f, e) ==
    IF e.chromosome = <<"M", "T">>
    THEN LET allele == IF Len(e.mother) > 0 /\ e.mother # <<"-", "-">>
                       THEN e.mother ELSE e.son1
         IN  IF Len(allele) > 0
             THEN [f EXCEPT !.mtEntries = MapSet(@, e.position, allele)]
             ELSE f
    ELSE f

RECURSIVE MarkerCountsAllTested(_, _, _)
\* MarkerCounts that counts every marker of the rule as tested
MarkerCountsAllTested(markers, map, j) ==
    IF j > Len(markers) THEN <<0, 0>>
    ELSE LET val == MapGet(map, markers[j].position)
             rest == MarkerCountsAllTested(markers, map, j + 1)
         IN  IF Truthy(val)
             THEN <<rest[1] + (IF stringIncludes(val, markers[j].allele) THEN 1 ELSE 0),
                    rest[2] + 1>>
             ELSE <<rest[1], rest[2] + 1>>

RECURSIVE MarkerCountsWeighted(_, _, _)
\* MarkerCounts that adds the weight of a matching marker instead of 1
MarkerCountsWeighted(markers, map, j) ==
    IF j > Len(markers) THEN <<0, 0>>
    ELSE LET val == MapGet(map, markers[j].position)
             rest == MarkerCountsWeighted(markers, map, j + 1)
         IN  IF Truthy(val)
             THEN <<rest[1] + (IF stringIncludes(val, markers[j].allele)
                               THEN markers[j].weight ELSE 0),
                    rest[2] + markers[j].weight>>
             ELSE rest

RECURSIVE MarkerCounts(_, _, _)
\* lines 109-119: <<matches, total>> of the markers from index j on
MarkerCounts(markers, map, j) ==
    IF j > Len(markers) THEN <<0, 0>>
    ELSE LET val == MapGet(map, markers[j].position)
             rest == MarkerCounts(markers, map, j + 1)
         IN  IF Truthy(val)
             THEN <<rest[1] + (IF stringIncludes(val, markers[j].allele) THEN 1 ELSE 0),
                    rest[2] + 1>>
             ELSE rest

\* BestAfter without the test percentage >= 50
BestAfterNoThreshold(bestMatch, rule, matches, total) ==
    IF total > 0
    THEN LET percentage == Ratio(matches * 100, total)
             score == RatioPlus(matches * 100, percentage)
             currentScore == RatioPlus(bestMatch.matches * 100, bestMatch.percentage)
         IN  IF RatioGreater(score, currentScore)
             THEN [haplogroup |-> rule.haplogroup, matches |-> matches,
                   total |-> total, percentage |-> percentage,
                   description |-> rule.description]
             ELSE bestMatch
    ELSE bestMatch

\* BestAfter whose score is the percentage alone
BestAfterPercentageOnly(bestMatch, rule, matches, total) ==
    IF total > 0
    THEN LET percentage == Ratio(matches * 100, total)
         IN  IF RatioAtLeast(percentage, 50)
                /\ RatioGreater(percentage, bestMatch.percentage)
             THEN [haplogroup |-> rule.haplogroup, matches |-> matches,
                   total |-> total, percentage |-> percentage,
                   description |-> rule.description]
             ELSE bestMatch
    ELSE bestMatch

\* BestAfter that also replaces the best match on an equal score
BestAfterTiesLater(bestMatch, rule, matches, total) ==
    IF total > 0
    THEN LET percentage == Ratio(matches * 100, total)
             score == RatioPlus(matches * 100, percentage)
             currentScore == RatioPlus(bestMatch.matches * 100, bestMatch.percentage)
         IN  IF RatioAtLeast(percentage, 50) /\ ~RatioGreater(currentScore, score)
             THEN [haplogroup |-> rule.haplogroup, matches |-> matches,
                   total |-> total, percentage |-> percentage,
                   description |-> rule.description]
             ELSE bestMatch
    ELSE bestMatch

\* lines 125-147: the best match after a rule with the given counters
BestAfter(bestMatch, rule, matches, total) ==
    IF total > 0
    THEN LET percentage == Ratio(matches * 100, total)
         IN  IF RatioAtLeast(percentage, 50)
             THEN LET score == RatioPlus(matches * 100, percentage)
                      currentScore == RatioPlus(bestMatch.matches * 100,
                                                bestMatch.percentage)
                  IN  IF RatioGreater(score, currentScore)
                      THEN [haplogroup |-> rule.haplogroup,
                            matches |-> matches,
                            total |-> total,
                            percentage |-> percentage,
                            description |-> rule.description]
                      ELSE bestMatch
             ELSE bestMatch
    ELSE bestMatch

\* one iteration of `for (const rule of mtRules)` (lines 105-148)
RuleBody(f) ==
    LET rule == f.mtRules[f.rule + 1]
        counts == MarkerCounts(rule.markers, f.mtEntries, 1)
    IN  [f EXCEPT !.rule = @ + 1,
                  !.matches = counts[1],
                  !.total = counts[2],
                  !.bestMatch = BestAfter(@, rule, counts[1], counts[2])]

\* HaplogroupResult that returns the haplogroup of the best match as it is
HaplogroupResultBareLabel(f) ==
    [returned |-> TRUE,
     maternal |-> f.bestMatch.haplogroup,
     paternal |-> "Requires advanced Y-tree traversal (External Tool Recommended)",
     details |-> [matchCount |-> f.bestMatch.matches,
                  totalmarkers |-> f.bestMatch.total,
                  percentage |-> f.bestMatch.percentage,
                  description |-> f.bestMatch.description]]

\* the returned HaplogroupResult (lines 150-163)
HaplogroupResult(f) ==
    [returned |-> TRUE,
     maternal |-> IF f.bestMatch.haplogroup # "Undetermined"
                  THEN f.bestMatch.haplogroup
                  ELSE "Undetermined (Try external tool)",
     paternal |-> "Requires advanced Y-tree traversal (External Tool Recommended)",
     details |-> [matchCount |-> f.bestMatch.matches,
                  totalmarkers |-> f.bestMatch.total,
                  percentage |-> f.bestMatch.percentage,
                  description |-> f.bestMatch.description]]

\* the table `rules` with the weight base + step * (i + 2 * j) given to
\* marker j of rule i
Reweighted(rules, base, step) ==
    [i \in DOMAIN rules |->
        [rules[i] EXCEPT !.markers =
            [j \in DOMAIN rules[i].markers |->
                [rules[i].markers[j] EXCEPT !.weight = base + step * (i + 2 * j)]]]]

\* rule tables that differ from mtRules only in the weights of the markers
ReweightedRules == {Reweighted(mtRules, 5, 0), Reweighted(mtRules, 0, 1)}

InitHaplogroup ==
    /\ call = "estimateHaplogroups"
    /\ pc = "loop"
    /\ n = 0
    /\ entry = NoEntry
    /\ frame = HaplogroupLocals(mtRules)
    /\ result = NoResult
    /\ \E rules \in ReweightedRules :
          twin = [entry |-> NoEntry, frame |-> HaplogroupLocals(rules),
                  result |-> NoResult]

\* the next element of `entries` is e; the second invocation, whose rule
\* table has other weights, reads the same element
HaplogroupRead ==
    /\ call = "estimateHaplogroups"
    /\ pc = "loop"
    /\ n < MaxMtEntries
    /\ \E e \in HaplogroupEntries :
          /\ entry' = e
          /\ frame' = HaplogroupElement(frame, e)
          /\ twin' = [twin EXCEPT !.entry = e,
                                  !.frame = HaplogroupElement(@, e)]
    /\ n' = n + 1
    /\ UNCHANGED <<call, pc, result>>

\* `entries` is exhausted: the next rule of the table is scanned
HaplogroupScan ==
    /\ call = "estimateHaplogroups"
    /\ pc \in {"loop", "rules"}
    /\ frame.rule < Len(frame.mtRules)
    /\ pc' = "rules"
    /\ frame' = RuleBody(frame)
    /\ twin' = [twin EXCEPT !.frame = RuleBody(@)]
    /\ UNCHANGED <<call, n, entry, result>>

\* every rule has been scanned: the function returns
HaplogroupReturn ==
    /\ call = "estimateHaplogroups"
    /\ pc \in {"loop", "rules"}
    /\ frame.rule = Len(frame.mtRules)
    /\ pc' = "done"
    /\ result' = HaplogroupResult(frame)
    /\ twin' = [twin EXCEPT !.result = HaplogroupResult(twin.frame)]
    /\ UNCHANGED <<call, n, entry, frame>>

----------------------------------------------------------------------------
(* analysis.ts: the three reports on a concatenation of two arrays *)

\* the three functions of analysis.ts that fold over `entries`
Analyses == {"analyzeMendelianConsistency", "analyzeMitochondrial", "analyzeSiblingSharing"}

\* the elements of the two arrays: for each analysis a part of its entries
\* that keeps every class of element (filtered out, skipped, counted either way)
ConcatEntries(c) ==
    CASE c = "analyzeMendelianConsistency" ->
            {e \in MendelianEntries :
                e.father = <<"A", "A">> /\ e.mother \in {<< >>, <<"A", "A">>}}
      [] c = "analyzeMitochondrial" ->
            {e \in MitochondrialEntries :
                e.father = << >> /\ e.mother \in {<< >>, <<"A", "G">>}}
      [] c = "analyzeSiblingSharing" ->
            {e \in SiblingEntries : e.son1 \in {<< >>, <<"A", "A">>, <<"A", "G">>}}

AnalysisLocals(c) ==
    CASE c = "analyzeMendelianConsistency" -> MendelianLocals
      [] c = "analyzeMitochondrial" -> MitochondrialLocals
      [] c = "analyzeSiblingSharing" -> SiblingLocals

AnalysisElement(c, f, e, idx) ==
    CASE c = "analyzeMendelianConsistency" -> MendelianElement(f, e, idx)
      [] c = "analyzeMitochondrial" -> MitochondrialElement(f, e, idx)
      [] c = "analyzeSiblingSharing" -> SiblingElement(f, e)

AnalysisResult(c, f) ==
    CASE c = "analyzeMendelianConsistency" -> MendelianResult(f)
      [] c = "analyzeMitochondrial" -> MitochondrialResult(f)
      [] c = "analyzeSiblingSharing" -> SiblingResult(f)

\* one invocation on the array first.concat(second), and beside it, in `twin`,
\* one invocation on `first` and one on `second`
InitConcat ==
    /\ call \in Analyses
    /\ pc = "first"
    /\ n = 0
    /\ entry = NoEntry
    /\ frame = AnalysisLocals(call)
    /\ result = NoResult
    /\ twin = [first |-> [n |-> 0, frame |-> AnalysisLocals(call), result |-> NoResult],
               second |-> [n |-> 0, frame |-> AnalysisLocals(call), result |-> NoResult]]

\* the next element of the concatenation is e, an element of `first`
ConcatReadFirst ==
    /\ pc = "first"
    /\ n < MaxEntries
    /\ \E e \in ConcatEntries(call) :
          /\ entry' = e
          /\ frame' = AnalysisElement(call, frame, e, n + 1)
          /\ twin' = [twin EXCEPT
                        !.first.n = @ + 1,
                        !.first.frame = AnalysisElement(call, @, e, twin.first.n + 1)]
    /\ n' = n + 1
    /\ UNCHANGED <<call, pc, result>>

\* `first` is exhausted: the elements of `second` follow
ConcatSecond ==
    /\ pc = "first"
    /\ pc' = "second"
    /\ UNCHANGED <<call, n, entry, frame, result, twin>>

\* the next element of the concatenation is e, an element of `second`
ConcatReadSecond ==
    /\ pc = "second"
    /\ n < MaxEntries
    /\ \E e \in ConcatEntries(call) :
          /\ entry' = e
          /\ frame' = AnalysisElement(call, frame, e, n + 1)
          /\ twin' = [twin EXCEPT
                        !.second.n = @ + 1,
                        !.second.frame = AnalysisElement(call, @, e, twin.second.n + 1)]
    /\ n' = n + 1
    /\ UNCHANGED <<call, pc, result>>

\* the three invocations return their reports
ConcatReturn ==
    /\ pc = "second"
    /\ pc' = "done"
    /\ result' = AnalysisResult(call, frame)
    /\ twin' = [twin EXCEPT
                  !.first.result = AnalysisResult(call, twin.first.frame),
                  !.second.result = AnalysisResult(call, twin.second.frame)]
    /\ UNCHANGED <<call, n, entry, frame>>

RECURSIVE ScanRules(_)
\* the loop over mtRules (lines 105-148), from the rule after f.rule on
ScanRules(f) ==
    IF f.rule = Len(f.mtRules) THEN f ELSE ScanRules(RuleBody(f))

----------------------------------------------------------------------------
(* haplogroup.ts: estimateHaplogroups on two arrays that agree on the
   position, mother and son1 of their MT records *)

\* MT records at two marker positions and records of chromosome Y
PairEntries ==
    {[GenotypeEntry(<<"M", "T">>, << >>, s1, << >>, mo) EXCEPT !.position = p] :
        p \in {7028, 8448}, s1 \in {<< >>, <<"A">>, <<"C">>}, mo \in {<< >>, <<"A">>, <<"C">>}}
    \cup
    {[GenotypeEntry(<<"Y">>, << >>, s1, << >>, mo) EXCEPT !.position = 7028] :
        s1 \in {<< >>, <<"C">>}, mo \in {<< >>, <<"C">>}}

\* the records that differ from e in nothing, in the father, in son2 or in
\* the rsid
Variants(e) ==
    {e, [e EXCEPT !.father = <<"C">>], [e EXCEPT !.son2 = <<"C">>],
     [e EXCEPT !.rsid = <<"x">>]}

InitPair ==
    /\ call = "estimateHaplogroups"
    /\ pc = "pair"
    /\ n = 0
    /\ entry = NoEntry
    /\ frame = HaplogroupLocals(mtRules)
    /\ result = NoResult
    /\ twin = [n |-> 0, entry |-> NoEntry, frame |-> HaplogroupLocals(mtRules),
               result |-> NoResult]

\* both invocations read an MT element; the second reads a variant of the
\* element the first reads
PairReadMT ==
    /\ pc = "pair"
    /\ n < MaxMtEntries
    /\ twin.n < MaxMtEntries
    /\ \E e \in {x \in PairEntries : x.chromosome = <<"M", "T">>} :
          \E v \in Variants(e) :
              /\ entry' = e
              /\ frame' = HaplogroupElement(frame, e)
              /\ twin' = [twin EXCEPT !.n = @ + 1,
                                      !.entry = v,
                                      !.frame = HaplogroupElement(@, v)]
    /\ n' = n + 1
    /\ UNCHANGED <<call, pc, result>>

\* the first invocation reads an element of another chromosome
PairReadFirst ==
    /\ pc = "pair"
    /\ n < MaxMtEntries
    /\ \E e \in {x \in PairEntries : x.chromosome # <<"M", "T">>} :
          /\ entry' = e
          /\ frame' = HaplogroupElement(frame, e)
    /\ n' = n + 1
    /\ UNCHANGED <<call, pc, result, twin>>

\* the second invocation reads an element of another chromosome
PairReadSecond ==
    /\ pc = "pair"
    /\ twin.n < MaxMtEntries
    /\ \E e \in {x \in PairEntries : x.chromosome # <<"M", "T">>} :
          twin' = [twin EXCEPT !.n = @ + 1,
                               !.entry = e,
                               !.frame = HaplogroupElement(@, e)]
    /\ UNCHANGED <<call, pc, n, entry, frame, result>>

\* both arrays are exhausted: both invocations scan the rules and return
PairReturn ==
    /\ pc = "pair"
    /\ pc' = "done"
    /\ frame' = ScanRules(frame)
    /\ result' = HaplogroupResult(ScanRules(frame))
    /\ twin' = [twin EXCEPT !.frame = ScanRules(@),
                            !.result = HaplogroupResult(ScanRules(twin.frame))]
    /\ UNCHANGED <<call, n, entry>>

----------------------------------------------------------------------------
(* Dashboard.tsx: the four analyses of lines 30-35 over the same data.entries *)

\* a bound on the length of data.entries
MaxRecords == 2

\* records of data.entries: autosomal consistent, autosomal with son1
\* inconsistent, MT with equal calls, MT without the mother's call, MT with
\* neither the mother's nor son1's call, MT with a mismatch, and an X record
DashboardEntries ==
    {GenotypeEntry(<<"1">>, <<"A", "A">>, <<"A", "A">>, <<"A", "A">>, <<"A", "A">>),
     GenotypeEntry(<<"1">>, <<"A", "A">>, <<"A", "G">>, <<"A", "A">>, <<"A", "A">>),
     [GenotypeEntry(<<"M", "T">>, << >>, <<"C">>, <<"C">>, <<"C">>) EXCEPT !.position = 7028],
     [GenotypeEntry(<<"M", "T">>, << >>, <<"A">>, <<"C">>, << >>) EXCEPT !.position = 7028],
     [GenotypeEntry(<<"M", "T">>, << >>, << >>, <<"C">>, << >>) EXCEPT !.position = 7028],
     [GenotypeEntry(<<"M", "T">>, <<"A">>, <<"C">>, <<"A">>, <<"C">>) EXCEPT !.position = 8448],
     GenotypeEntry(<<"X">>, <<"A">>, <<"A", "G">>, <<"A", "G">>, <<"A", "G">>)}

RECURSIVE ArraysUpTo(_, _)
\* the arrays of at most k elements of the set S
ArraysUpTo(S, k) ==
    IF k = 0 THEN {<< >>}
    ELSE LET shorter == ArraysUpTo(S, k - 1)
         IN  shorter \cup {Append(a, e) : a \in {b \in shorter : Len(b) = k - 1}, e \in S}

\* the element filter of each analysis of analysis.ts
Keeps(a, e) ==
    IF a = "analyzeMitochondrial" THEN IsMT(e) ELSE IsAutosomal(e)

RECURSIVE FilterIndices(_, _, _)
\* Array.prototype.filter with the filter of analysis a: the places, in order
\* from place i on, of the elements of arr that are kept
FilterIndices(a, arr, i) ==
    IF i > Len(arr) THEN << >>
    ELSE IF Keeps(a, arr[i]) THEN <<i>> \o FilterIndices(a, arr, i + 1)
    ELSE FilterIndices(a, arr, i + 1)

\* a filter that removes the rejected elements from `entries` itself
entriesFilterInPlace(a, entries) ==
    LET kept == FilterIndices(a, entries, 1)
    IN  [filtered |-> [k \in DOMAIN kept |-> k],
         entries |-> [k \in DOMAIN kept |-> entries[kept[k]]]]

\* entries.filter(...) of lines 157, 216 and 243: a new array of the kept
\* elements (named by their places in `entries`); `entries` is left as it is
entriesFilter(a, entries) ==
    [filtered |-> FilterIndices(a, entries, 1), entries |-> entries]

\* one iteration of the loop of analysis a over its filtered array
AnalysisBody(a, f, e, idx) ==
    CASE a = "analyzeMendelianConsistency" -> MendelianBody(f, e, idx)
      [] a = "analyzeMitochondrial" -> MitochondrialBody(f, e, idx)
      [] a = "analyzeSiblingSharing" -> SiblingBody(f, e)

\* a useMemo of lines 30-35 that has not run
NotStarted(locals) == [pc |-> "start", i |-> 0, filtered |-> << >>, locals |-> locals,
                       result |-> NoResult]

\* data.entries and the rule table are shared by the four computations; each
\* computation has its own locals
InitDashboard ==
    /\ call = "Dashboard"
    /\ pc = "memo"
    /\ entry = NoEntry
    /\ result = NoResult
    /\ \E entries \in ArraysUpTo(DashboardEntries, MaxRecords) :
          /\ n = Len(entries)
          /\ frame = [entries |-> entries,
                      mtRules |-> mtRules,
                      task |-> [a \in Analyses \cup {"estimateHaplogroups"} |->
                                  IF a = "estimateHaplogroups"
                                  THEN NotStarted(HaplogroupLocals(mtRules))
                                  ELSE NotStarted(AnalysisLocals(a))]]
          /\ twin = [entries |-> entries, mtRules |-> mtRules]

\* an analysis of analysis.ts filters `entries`
DashboardFilter ==
    /\ call = "Dashboard"
    /\ pc = "memo"
    /\ \E a \in Analyses :
          /\ frame.task[a].pc = "start"
          /\ LET r == entriesFilter(a, frame.entries)
             IN  frame' = [frame EXCEPT !.entries = r.entries,
                                        !.task[a].pc = "loop",
                                        !.task[a].filtered = r.filtered]
    /\ UNCHANGED <<call, pc, n, entry, result, twin>>

\* an analysis of analysis.ts runs one iteration of its loop
DashboardIterate ==
    /\ call = "Dashboard"
    /\ pc = "memo"
    /\ \E a \in Analyses :
          LET t == frame.task[a] IN
          /\ t.pc = "loop"
          /\ t.i < Len(t.filtered)
          /\ t.filtered[t.i + 1] \in DOMAIN frame.entries
          /\ frame' = [frame EXCEPT
                         !.task[a].i = t.i + 1,
                         !.task[a].locals =
                             AnalysisBody(a, t.locals, frame.entries[t.filtered[t.i + 1]],
                                          t.filtered[t.i + 1])]
    /\ UNCHANGED <<call, pc, n, entry, result, twin>>

\* an analysis of analysis.ts returns its report
DashboardReturn ==
    /\ call = "Dashboard"
    /\ pc = "memo"
    /\ \E a \in Analyses :
          LET t == frame.task[a] IN
          /\ t.pc = "loop"
          /\ t.i = Len(t.filtered)
          /\ frame' = [frame EXCEPT !.task[a].pc = "done",
                                    !.task[a].result = AnalysisResult(a, t.locals)]
    /\ UNCHANGED <<call, pc, n, entry, result, twin>>

\* estimateHaplogroups reads the next element of `entries` (lines 94-100)
DashboardHaplogroupRead ==
    /\ call = "Dashboard"
    /\ pc = "memo"
    /\ LET t == frame.task["estimateHaplogroups"] IN
          /\ t.pc \in {"start", "loop"}
          /\ t.i < Len(frame.entries)
          /\ frame' = [frame EXCEPT
                         !.task["estimateHaplogroups"].pc = "loop",
                         !.task["estimateHaplogroups"].i = t.i + 1,
                         !.task["estimateHaplogroups"].locals =
                             HaplogroupElement(t.locals, frame.entries[t.i + 1])]
    /\ UNCHANGED <<call, pc, n, entry, result, twin>>

\* estimateHaplogroups scans the rule table and returns (lines 103-163)
DashboardHaplogroupReturn ==
    /\ call = "Dashboard"
    /\ pc = "memo"
    /\ LET t == frame.task["estimateHaplogroups"] IN
          /\ t.pc \in {"start", "loop"}
          /\ t.i >= Len(frame.entries)
          /\ frame' = [frame EXCEPT
                         !.task["estimateHaplogroups"].pc = "done",
                         !.task["estimateHaplogroups"].locals =
                             ScanRules([t.locals EXCEPT !.mtRules = frame.mtRules]),
                         !.task["estimateHaplogroups"].result =
                             HaplogroupResult(
                                 ScanRules([t.locals EXCEPT !.mtRules = frame.mtRules]))]
    /\ UNCHANGED <<call, pc, n, entry, result, twin>>

\* the JavaScript quotient a / b of two counts, times 100: NaN for 0 / 0,
\* Infinity for a positive count over 0, the exact quotient otherwise
Percent(a, b) ==
    [nan |-> a = 0 /\ b = 0,
     infinite |-> a # 0 /\ b = 0,
     num |-> IF b = 0 THEN 0 ELSE a * 100,
     den |-> IF b = 0 THEN 1 ELSE b]

\* x > k for a JavaScript number x: false for NaN
GreaterThan(x, k) == ~x.nan /\ (x.infinite \/ x.num > k * x.den)

\* the four values of lines 30-35 are there: the component computes the
\* error rate (lines 51-52) and the consistency rate (lines 155, 163) and
\* renders
DashboardRender ==
    /\ call = "Dashboard"
    /\ pc = "memo"
    /\ \A a \in DOMAIN frame.task : frame.task[a].pc = "done"
    /\ pc' = "done"
    /\ result' = [returned |-> TRUE,
                  mendelian |-> frame.task["analyzeMendelianConsistency"].result,
                  mitochondrial |-> frame.task["analyzeMitochondrial"].result,
                  sibling |-> frame.task["analyzeSiblingSharing"].result,
                  haplogroups |-> frame.task["estimateHaplogroups"].result,
                  errorRate |->
                      Percent(frame.task["analyzeMendelianConsistency"].result.inconsistent,
                              frame.task["analyzeMendelianConsistency"].result.totalSNPs),
                  isHighError |->
                      GreaterThan(
                          Percent(frame.task["analyzeMendelianConsistency"].result.inconsistent,
                                  frame.task["analyzeMendelianConsistency"].result.totalSNPs),
                          1),
                  consistencyRate |->
                      Percent(frame.task["analyzeMendelianConsistency"].result.consistent,
                              frame.task["analyzeMendelianConsistency"].result.totalSNPs)]
    /\ UNCHANGED <<call, n, entry, frame, twin>>

----------------------------------------------------------------------------
(* App.tsx: parseGenomeData *)

\* a bound on the number of lines of the file
MaxLines == 2

\* the white space characters that occur in the model (String.prototype.trim
\* and the class \s of regular expressions)
WhiteSpace == {" ", "\t", "\r", "\n"}

RECURSIVE splitAt(_, _, _)
\* String.prototype.split(sep) for a one-character separator: cur is the piece
\* that is being read
splitAt(str, sep, cur) ==
    IF Len(str) = 0 THEN <<cur>>
    ELSE IF Head(str) = sep THEN <<cur>> \o splitAt(Tail(str), sep, << >>)
    ELSE splitAt(Tail(str), sep, Append(cur, Head(str)))

RECURSIVE trimStart(_)
trimStart(str) ==
    IF Len(str) > 0 /\ Head(str) \in WhiteSpace THEN trimStart(Tail(str)) ELSE str

RECURSIVE trimEnd(_)
trimEnd(str) ==
    IF Len(str) > 0 /\ str[Len(str)] \in WhiteSpace
    THEN trimEnd(SubSeq(str, 1, Len(str) - 1))
    ELSE str

\* String.prototype.trim
trim(str) == trimEnd(trimStart(str))

\* String.prototype.startsWith
startsWith(str, prefix) ==
    Len(str) >= Len(prefix) /\ SubSeq(str, 1, Len(prefix)) = prefix

RECURSIVE splitWhiteSpace(_, _)
\* String.prototype.split(/\s+/): the pieces between the runs of white space
splitWhiteSpace(str, cur) ==
    IF Len(str) = 0 THEN <<cur>>
    ELSE IF Head(str) \in WhiteSpace
    THEN <<cur>> \o splitWhiteSpace(trimStart(str), << >>)
    ELSE splitWhiteSpace(Tail(str), Append(cur, Head(str)))

\* parseInt(string, 10): leading white space, an optional sign, then the
\* longest prefix of decimal digits
parseIntRadix10(str) ==
    LET s0 == trimStart(str)
        signed == Len(s0) > 0 /\ Head(s0) \in {"+", "-"}
        sign == IF Len(s0) > 0 /\ Head(s0) = "-" THEN -1 ELSE 1
        s1 == IF signed THEN Tail(s0) ELSE s0
        r == ParseDigits(s1, 10, 0, FALSE)
    IN  IF isNaN(r) THEN NaN ELSE Num(sign * r.value)

\* clean that knows the no-call "--" only
cleanDashesOnly(g) == IF g = <<"-", "-">> THEN << >> ELSE g

\* line 103: the no-calls "--" and "__" become the empty string
clean(g) == IF g = <<"-", "-">> \/ g = <<"_", "_">> THEN << >> ELSE g

\* Set.prototype.add on a Set kept in insertion order
SetAdd(set, x) == IF includes(set, x) THEN set ELSE Append(set, x)

ParseLocals == [lines |-> << >>, entries |-> << >>, chromosomes |-> << >>]

\* parseLine that requires more than 7 parts
parseLineEightParts(f, line) ==
    LET trimmed == trim(line) IN
    IF Len(trimmed) = 0 \/ startsWith(trimmed, <<"#">>) THEN f
    ELSE LET parts == splitWhiteSpace(trimmed, << >>) IN
         IF Len(parts) < 8 THEN f
         ELSE [f EXCEPT
                 !.entries = Append(@, [rsid |-> parts[1],
                                        chromosome |-> parts[2],
                                        position |-> parseIntRadix10(parts[3]),
                                        father |-> clean(parts[4]),
                                        son1 |-> clean(parts[5]),
                                        son2 |-> clean(parts[6]),
                                        mother |-> clean(parts[7])]),
                 !.chromosomes = SetAdd(@, parts[2])]

\* one iteration of `for (const line of lines)` (lines 92-118); position is
\* a JavaScript number, NaN when the third part has no leading digits
parseLine(f, line) ==
    LET trimmed == trim(line) IN
    IF Len(trimmed) = 0 \/ startsWith(trimmed, <<"#">>) THEN f
    ELSE LET parts == splitWhiteSpace(trimmed, << >>) IN
         IF Len(parts) < 7 THEN f
         ELSE [f EXCEPT
                 !.entries = Append(@, [rsid |-> parts[1],
                                        chromosome |-> parts[2],
                                        position |-> parseIntRadix10(parts[3]),
                                        father |-> clean(parts[4]),
                                        son1 |-> clean(parts[5]),
                                        son2 |-> clean(parts[6]),
                                        mother |-> clean(parts[7])]),
                 !.chromosomes = SetAdd(@, parts[2])]

\* the returned ParsedData (lines 120-126)
ParsedData(f) ==
    [returned |-> TRUE,
     entries |-> f.entries,
     metadata |-> [count |-> Len(f.entries), chromosomes |-> f.chromosomes]]

RECURSIVE join(_, _)
\* the pieces with sep between them
join(pieces, sep) ==
    IF Len(pieces) = 0 THEN << >>
    ELSE IF Len(pieces) = 1 THEN pieces[1]
    ELSE pieces[1] \o sep \o join(Tail(pieces), sep)

\* a line of a file: white space, then fields with white space between them,
\* then white space
Line(lead, fields, sep, trail) ==
    [fields |-> fields, text |-> lead \o join(fields, sep) \o trail]

\* the fields of a marker line
MarkerFields(rsid, chromosome, position, father, son1, son2, mother) ==
    <<rsid, chromosome, position, father, son1, son2, mother>>

\* marker lines with calls, no-calls and tokens that only look like no-calls
MarkerLines ==
    {Line(<< >>, MarkerFields(<<"r">>, <<"1">>, <<"5">>, f, s1, s2, mo), <<" ">>, << >>) :
        f \in {<<"-", "-">>, <<"A", "G">>},
        s1 \in {<<"_", "_">>, <<"A", "G">>},
        s2 \in {<<"-", "-">>, <<"-", "_">>},
        mo \in {<<"_", "_">>, <<"A", "G">>}}

AG == <<"A", "G">>

\* other lines: blank, white space only, comments (short, with seven fields,
\* indented), six and eight fields, tabs, a carriage return, an indented
\* marker line, a position without digits, a # inside the first field, a
\* call of three dashes
OtherLines ==
    {Line(<< >>, << >>, <<" ">>, << >>),
     Line(<<" ", "\t">>, << >>, <<" ">>, << >>),
     Line(<< >>, << <<"#">>, <<"r">> >>, <<" ">>, << >>),
     Line(<< >>, MarkerFields(<<"#", "r">>, <<"1">>, <<"5">>, AG, AG, AG, AG), <<" ">>, << >>),
     Line(<<" ">>, MarkerFields(<<"#", "r">>, <<"1">>, <<"5">>, AG, AG, AG, AG), <<" ">>, << >>),
     Line(<< >>, << <<"r">>, <<"1">>, <<"5">>, AG, AG, AG >>, <<" ">>, << >>),
     Line(<< >>, Append(MarkerFields(<<"r">>, <<"2">>, <<"5">>, AG, AG, AG, <<"-", "-">>), <<"x">>),
          <<"\t", " ">>, << >>),
     Line(<< >>, MarkerFields(<<"r">>, <<"M", "T">>, <<"2", "5">>, AG, AG, AG, AG), <<"\t">>, <<"\r">>),
     Line(<<" ", " ">>, MarkerFields(<<"r">>, <<"X">>, <<"5">>, AG, AG, AG, AG), <<" ">>, <<" ">>),
     Line(<< >>, MarkerFields(<<"r">>, <<"1">>, <<"x">>, AG, AG, AG, AG), <<" ">>, << >>),
     Line(<< >>, MarkerFields(<<"r", "#">>, <<"1">>, <<"5">>, AG, AG, AG, AG), <<" ">>, << >>),
     Line(<< >>, MarkerFields(<<"r">>, <<"1">>, <<"5">>, <<"-", "-", "-">>, <<"-">>, <<"_">>, AG),
          <<" ">>, << >>)}

FileLines == MarkerLines \cup OtherLines

\* the texts of the lines
Texts(lines) == [i \in DOMAIN lines |-> lines[i].text]

\* parseGenomeData(content) is called; content is made of at most MaxLines
\* lines, which `twin` remembers
InitParse ==
    /\ call = "parseGenomeData"
    /\ pc = "split"
    /\ n = 0
    /\ entry = NoEntry
    /\ result = NoResult
    /\ \E lines \in ArraysUpTo(FileLines, MaxLines) :
          /\ frame = [ParseLocals EXCEPT !.lines = <<join(Texts(lines), <<"\n">>)>>]
          /\ twin = [lines |-> lines]

\* line 88: content.split('\n')
ParseSplit ==
    /\ call = "parseGenomeData"
    /\ pc = "split"
    /\ pc' = "loop"
    /\ frame' = [frame EXCEPT !.lines = splitAt(frame.lines[1], "\n", << >>)]
    /\ UNCHANGED <<call, n, entry, result, twin>>

\* the loop reads the next line
ParseLine ==
    /\ call = "parseGenomeData"
    /\ pc = "loop"
    /\ n < Len(frame.lines)
    /\ frame' = parseLine(frame, frame.lines[n + 1])
    /\ n' = n + 1
    /\ UNCHANGED <<call, pc, entry, result, twin>>

\* the lines are exhausted
ParseReturn ==
    /\ call = "parseGenomeData"
    /\ pc = "loop"
    /\ n = Len(frame.lines)
    /\ pc' = "done"
    /\ result' = ParsedData(frame)
    /\ UNCHANGED <<call, n, entry, frame, twin>>

----------------------------------------------------------------------------
(* GenomeArtV1.tsx (and GenomeArtV2, which schedules in the same way):
   generateArt, processBatch and the effect *)

\* a bound on the number of calls of generateArt
MaxGenerations == 3

\* a bound on the number of batches personData needs (its length over batchSize)
MaxBatches == 2

\* cancelAnimationFrame(id): the request is removed from the browser's list
cancelAnimationFrame(pending, id) == {r \in pending : r.id # id}

\* the component before it is mounted: reqIdRef.current is null (0), no
\* request is pending, no processBatch closure exists, nothing was drawn
ArtState ==
    [reqIdRef |-> 0, nextId |-> 1, pending |-> {}, isGenerating |-> FALSE,
     closures |-> << >>, draws |-> << >>]

\* generateArt (lines 18-183) with a canvas and a context: the request of
\* reqIdRef is cancelled, the canvas is cleared, a new processBatch closure
\* with i = 0 is made and requested
generateArt(f, batches) ==
    LET remaining == IF f.reqIdRef # 0
                     THEN cancelAnimationFrame(f.pending, f.reqIdRef)
                     ELSE f.pending
    IN  [f EXCEPT !.pending = remaining \cup {[id |-> f.nextId,
                                                closure |-> Len(f.closures) + 1]},
                  !.reqIdRef = f.nextId,
                  !.nextId = f.nextId + 1,
                  !.isGenerating = TRUE,
                  !.closures = Append(@, [i |-> 0, length |-> batches]),
                  !.draws = Append(@, 0)]

\* a cleanup that cancels nothing
effectCleanupNoCancel(f) == f

\* the cleanup of the effect (lines 187-191)
effectCleanup(f) ==
    IF f.reqIdRef # 0
    THEN [f EXCEPT !.pending = cancelAnimationFrame(f.pending, f.reqIdRef)]
    ELSE f

\* the browser runs the callback of request r: processBatch (lines 74-180) of
\* closure r.closure draws one batch, then requests itself again or stops
processBatch(f, r) ==
    LET k == r.closure
        i == IF f.closures[k].i < f.closures[k].length
             THEN f.closures[k].i + 1 ELSE f.closures[k].i
        g == [f EXCEPT !.pending = @ \ {r},
                       !.closures[k].i = i,
                       !.draws[k] = @ + 1]
    IN  IF i < f.closures[k].length
        THEN [g EXCEPT !.pending = @ \cup {[id |-> f.nextId, closure |-> k]},
                       !.reqIdRef = f.nextId,
                       !.nextId = f.nextId + 1]
        ELSE [g EXCEPT !.isGenerating = FALSE, !.reqIdRef = 0]

InitArt ==
    /\ call = "GenomeArt"
    /\ pc = "unmounted"
    /\ n = 0
    /\ entry = NoEntry
    /\ frame = ArtState
    /\ result = NoResult
    /\ twin = [batches |-> 0]

\* the component mounts: the effect of lines 185-192 runs for the first time
ArtMount ==
    /\ call = "GenomeArt"
    /\ pc = "unmounted"
    /\ n = 0
    /\ \E batches \in 0..MaxBatches :
          /\ frame' = generateArt(frame, batches)
          /\ twin' = [batches |-> batches]
    /\ pc' = "mounted"
    /\ n' = 1
    /\ UNCHANGED <<call, entry, result>>

\* entries, person, colorScheme or shape changed: the cleanup runs, then the
\* effect runs again
ArtEffect ==
    /\ call = "GenomeArt"
    /\ pc = "mounted"
    /\ n < MaxGenerations
    /\ \E batches \in 0..MaxBatches :
          /\ frame' = generateArt(effectCleanup(frame), batches)
          /\ twin' = [batches |-> batches]
    /\ n' = n + 1
    /\ UNCHANGED <<call, pc, entry, result>>

\* a click on Regenerate (lines 238-241); the button is disabled while
\* isGenerating
ArtRegenerate ==
    /\ call = "GenomeArt"
    /\ pc = "mounted"
    /\ n < MaxGenerations
    /\ ~frame.isGenerating
    /\ frame' = generateArt(frame, twin.batches)
    /\ n' = n + 1
    /\ UNCHANGED <<call, pc, entry, result, twin>>

\* the browser runs a pending animation-frame callback
ArtAnimationFrame ==
    /\ call = "GenomeArt"
    /\ \E r \in frame.pending : frame' = processBatch(frame, r)
    /\ UNCHANGED <<call, pc, n, entry, result, twin>>

\* the component unmounts: the cleanup runs
ArtUnmount ==
    /\ call = "GenomeArt"
    /\ pc = "mounted"
    /\ pc' = "gone"
    /\ frame' = effectCleanup(frame)
    /\ UNCHANGED <<call, n, entry, result, twin>>

----------------------------------------------------------------------------
(* App.tsx: App and handleDataLoaded *)

\* a bound on the number of calls of handleDataLoaded
MaxCalls == 3

RECURSIVE parseLines(_, _, _)
\* the loop of parseGenomeData over the lines from place i on
parseLines(f, lines, i) ==
    IF i > Len(lines) THEN f ELSE parseLines(parseLine(f, lines[i]), lines, i + 1)

\* parseGenomeData(content) for a string content
parseGenomeData(content) ==
    ParsedData(parseLines(ParseLocals, splitAt(content, "\n", << >>), 1))

\* what FileUpload passes to onDataLoaded: the text of a file, or a value
\* that is no string (content.split then throws a TypeError)
Text(chars) == [isString |-> TRUE, chars |-> chars]

NotAString == [isString |-> FALSE, chars |-> << >>]

AppContents ==
    {Text(<<"r", " ", "1", " ", "5", " ", "A", "G", " ", "A", "G", " ", "-", "-", " ",
            "A", "G">>),
     Text(<<"#", "\n">>),
     NotAString}

\* useState(null) of line 8
Null == [returned |-> FALSE]

\* const parsed = parseGenomeData(content) (line 15), for each text that can
\* be delivered; parseGenomeData throws on a content that is not a string
parsed ==
    [content \in {c \in AppContents : c.isString} |->
        parseGenomeData(content.chars)]

\* the callback of setTimeout without `finally`: loading is reset only after
\* setData
timerCallbackNoFinally(f, content) ==
    IF content.isString
    THEN [f EXCEPT !.data = parsed[content], !.loading = FALSE]
    ELSE f

\* the callback of setTimeout (lines 14-23): try setData(parse), catch,
\* finally setLoading(false)
timerCallback(f, content) ==
    IF content.isString
    THEN [f EXCEPT !.data = parsed[content], !.loading = FALSE]
    ELSE [f EXCEPT !.loading = FALSE]

InitApp ==
    /\ call = "App"
    /\ pc = "rendered"
    /\ n = 0
    /\ entry = NoEntry
    /\ frame = [data |-> Null, loading |-> FALSE, timers |-> << >>]
    /\ result = NoResult
    /\ twin = [previous |-> Null]

\* handleDataLoaded(content) (lines 11-25): a FileReader or the fetch of the
\* demo file has delivered its text, which may happen at any time after the
\* user asked for it
AppHandleDataLoaded ==
    /\ call = "App"
    /\ n < MaxCalls
    /\ \E content \in AppContents :
          frame' = [frame EXCEPT !.loading = TRUE,
                                 !.timers = Append(@, [content |-> content,
                                                       fired |-> FALSE])]
    /\ n' = n + 1
    /\ UNCHANGED <<call, pc, entry, result, twin>>

\* the timers that have not fired
PendingTimers == {k \in DOMAIN frame.timers : ~frame.timers[k].fired}

\* the oldest pending timer fires (all have the same delay of 100 ms)
AppTimer ==
    /\ call = "App"
    /\ PendingTimers # {}
    /\ LET k == CHOOSE k \in PendingTimers : \A j \in PendingTimers : k <= j
       IN  /\ frame' = [timerCallback(frame, frame.timers[k].content)
                           EXCEPT !.timers[k].fired = TRUE]
           /\ twin' = [previous |-> frame.data]
    /\ UNCHANGED <<call, pc, n, entry, result>>

\* a click on "Upload New File" (line 37)
AppUploadNew ==
    /\ call = "App"
    /\ frame.data # Null
    /\ frame' = [frame EXCEPT !.data = Null]
    /\ UNCHANGED <<call, pc, n, entry, result, twin>>

----------------------------------------------------------------------------
(* Specifications *)

\* one invocation of one of the functions
Init ==
    InitTrio \/ InitMendelian \/ InitMitochondrial \/ InitSibling \/ InitHaplogroup

Next ==
    \/ IsConsistentCall
    \/ MendelianRead
    \/ MendelianReturn
    \/ MitochondrialRead
    \/ MitochondrialReturn
    \/ SiblingRead
    \/ SiblingReturn
    \/ HaplogroupRead
    \/ HaplogroupScan
    \/ HaplogroupReturn

Spec == Init /\ [][Next]_vars

\* isConsistent alone
NextTrio == IsConsistentCall

SpecTrio == InitTrio /\ [][NextTrio]_vars

\* analyzeMendelianConsistency alone
NextMendelian == MendelianRead \/ MendelianReturn

SpecMendelian == InitMendelian /\ [][NextMendelian]_vars

\* analyzeMitochondrial alone
NextMitochondrial == MitochondrialRead \/ MitochondrialReturn

SpecMitochondrial == InitMitochondrial /\ [][NextMitochondrial]_vars

\* analyzeSiblingSharing alone
NextSibling == SiblingRead \/ SiblingReturn

SpecSibling == InitSibling /\ [][NextSibling]_vars

\* estimateHaplogroups alone
NextHaplogroup == HaplogroupRead \/ HaplogroupScan \/ HaplogroupReturn

SpecHaplogroup == InitHaplogroup /\ [][NextHaplogroup]_vars

\* the two analyses that filter the autosomal entries
InitAutosomal == InitMendelian \/ InitSibling

NextAutosomal == MendelianRead \/ MendelianReturn \/ SiblingRead \/ SiblingReturn

SpecAutosomal == InitAutosomal /\ [][NextAutosomal]_vars

\* isConsistent and analyzeMendelianConsistency, each with its second
\* invocation on exchanged parents
InitParents == InitTrio \/ InitMendelian

NextParents == IsConsistentCall \/ MendelianRead \/ MendelianReturn

SpecParents == InitParents /\ [][NextParents]_vars

\* each analysis on a concatenation, beside its invocations on the two parts
NextConcat == ConcatReadFirst \/ ConcatSecond \/ ConcatReadSecond \/ ConcatReturn

SpecConcat == InitConcat /\ [][NextConcat]_vars

\* the four computations of the Dashboard, interleaved in every order
NextDashboard ==
    \/ DashboardFilter
    \/ DashboardIterate
    \/ DashboardReturn
    \/ DashboardHaplogroupRead
    \/ DashboardHaplogroupReturn
    \/ DashboardRender

SpecDashboard == InitDashboard /\ [][NextDashboard]_vars

\* parseGenomeData alone
NextParse == ParseSplit \/ ParseLine \/ ParseReturn

SpecParse == InitParse /\ [][NextParse]_vars

\* the two analyses that return a list of entries
InitDiagnostics == InitMendelian \/ InitMitochondrial

NextDiagnostics ==
    MendelianRead \/ MendelianReturn \/ MitochondrialRead \/ MitochondrialReturn

SpecDiagnostics == InitDiagnostics /\ [][NextDiagnostics]_vars

\* estimateHaplogroups on two arrays that agree on their MT records' position,
\* mother and son1
NextPair == PairReadMT \/ PairReadFirst \/ PairReadSecond \/ PairReturn

SpecPair == InitPair /\ [][NextPair]_vars

\* a genome-art component from mount to unmount
NextArt == ArtMount \/ ArtEffect \/ ArtRegenerate \/ ArtAnimationFrame \/ ArtUnmount

SpecArt == InitArt /\ [][NextArt]_vars

\* App: the timers of setTimeout eventually fire
NextApp == AppHandleDataLoaded \/ AppTimer \/ AppUploadNew

SpecApp == InitApp /\ [][NextApp]_vars /\ WF_vars(AppTimer)

----------------------------------------------------------------------------
(* Properties of analyzeMendelianConsistency and isConsistent *)

\* an element has just been read by the loop of the running analysis
ReadStep == pc = "loop" /\ pc' = "loop" /\ n' = n + 1

\* the running analysis has just returned
ReturnStep == pc = "loop" /\ pc' = "done"

\* all four calls of the entry are exactly two characters long
Complete(e) ==
    Len(e.father) = 2 /\ Len(e.mother) = 2 /\ Len(e.son1) = 2 /\ Len(e.son2) = 2

\* C1: the report of analyzeMendelianConsistency satisfies
\* totalSNPs = consistent + inconsistent, and neither count is negative.
C1_TotalIsSum ==
    (call = "analyzeMendelianConsistency" /\ pc = "done") =>
        /\ result.totalSNPs = result.consistent + result.inconsistent
        /\ result.consistent >= 0
        /\ result.inconsistent >= 0

\* a report with one consistent and one inconsistent entry
C1_Witness ==
    /\ call = "analyzeMendelianConsistency"
    /\ pc = "done"
    /\ result.consistent = 1
    /\ result.inconsistent = 1
    /\ result.totalSNPs = 2

\* the allele-origin test of the claim, on two-character genotypes
OneFromEach(father, mother, child) ==
    \/ child[1] \in {father[1], father[2]} /\ child[2] \in {mother[1], mother[2]}
    \/ child[1] \in {mother[1], mother[2]} /\ child[2] \in {father[1], father[2]}

\* C2: for two-character father, mother and child, isConsistent is true iff
\* (c0 is a father allele and c1 a mother allele) or (c0 is a mother allele
\* and c1 a father allele); a child made of one allele of each parent, in
\* either order, is consistent; father AG, mother CT, child CC is not.
C2_IsConsistentIff ==
    (call = "isConsistent" /\ pc = "done") =>
        /\ result.value = OneFromEach(entry.father, entry.mother, entry.child)
        /\ \A i \in 1..2, j \in 1..2 :
              /\ entry.child = <<entry.father[i], entry.mother[j]>> => result.value
              /\ entry.child = <<entry.mother[j], entry.father[i]>> => result.value
        /\ (entry.father = <<"A", "G">> /\ entry.mother = <<"C", "T">>
               /\ entry.child = <<"C", "C">>) => ~result.value

\* father AG, mother CT: the child CA (mother's allele first) was found
\* consistent
C2_Witness ==
    /\ call = "isConsistent"
    /\ pc = "done"
    /\ entry.father = <<"A", "G">>
    /\ entry.mother = <<"C", "T">>
    /\ entry.child = <<"C", "A">>
    /\ result.value = TRUE

\* the entry is checked by the Mendelian loop: autosomal and complete
MendelianRetained(e) == IsAutosomal(e) /\ Complete(e)

\* C3: a retained entry is counted inconsistent exactly when son1 or son2
\* fails isConsistent and consistent exactly when both pass; an entry where
\* both sons fail raises inconsistent by exactly 1 and is appended to
\* inconsistentEntries exactly once.
C3_OncePerRecord ==
    [][(call = "analyzeMendelianConsistency" /\ ReadStep /\ MendelianRetained(entry')) =>
          LET fails == \/ ~isConsistent(entry'.father, entry'.mother, entry'.son1)
                       \/ ~isConsistent(entry'.father, entry'.mother, entry'.son2)
          IN  /\ fails =>
                   /\ frame'.inconsistent = frame.inconsistent + 1
                   /\ frame'.consistent = frame.consistent
                   /\ frame'.inconsistentEntries = Append(frame.inconsistentEntries, n')
              /\ ~fails =>
                   /\ frame'.consistent = frame.consistent + 1
                   /\ frame'.inconsistent = frame.inconsistent
                   /\ frame'.inconsistentEntries = frame.inconsistentEntries]_vars

\* the second entry is one where both sons fail, after a first inconsistent
\* entry: it is counted once
C3_Witness ==
    /\ call = "analyzeMendelianConsistency"
    /\ n = 2
    /\ MendelianRetained(entry)
    /\ ~isConsistent(entry.father, entry.mother, entry.son1)
    /\ ~isConsistent(entry.father, entry.mother, entry.son2)
    /\ frame.inconsistent = 2
    /\ frame.inconsistentEntries = <<1, 2>>

\* C4: an autosomal entry in which father, mother, son1 or son2 is empty or
\* not exactly two characters long changes neither consistent nor
\* inconsistent nor inconsistentEntries.
C4_IncompleteSkipped ==
    [][(call = "analyzeMendelianConsistency" /\ ReadStep
           /\ IsAutosomal(entry') /\ ~Complete(entry')) =>
          /\ frame'.consistent = frame.consistent
          /\ frame'.inconsistent = frame.inconsistent
          /\ frame'.inconsistentEntries = frame.inconsistentEntries]_vars

\* after one counted entry, an autosomal entry whose mother has three
\* characters (and whose son1 is not explained by the parents) was skipped
C4_Witness ==
    /\ call = "analyzeMendelianConsistency"
    /\ n = 2
    /\ IsAutosomal(entry)
    /\ Len(entry.mother) = 3
    /\ entry.father = <<"A", "A">>
    /\ entry.son1 = <<"G", "G">>
    /\ entry.son2 = <<"A", "A">>
    /\ frame.consistent + frame.inconsistent = 1

----------------------------------------------------------------------------
(* Properties of the autosomal filter *)

DecimalDigits == {"0", "1", "2", "3", "4", "5", "6", "7", "8", "9"}

\* the label is a non-empty string of decimal digits
IsUnsignedDecimal(label) ==
    Len(label) > 0 /\ \A i \in DOMAIN label : label[i] \in DecimalDigits

\* the counts of the running analysis
Counts ==
    IF call = "analyzeSiblingSharing"
    THEN <<frame.total, frame.matches>>
    ELSE <<frame.consistent, frame.inconsistent, Len(frame.inconsistentEntries)>>

\* C5: analyzeMendelianConsistency and analyzeSiblingSharing count an entry
\* only if its chromosome label is an unsigned decimal integer; an entry with
\* any other label (X, Y, MT, malformed, non-numeric) changes no count.
C5_OnlyUnsignedDecimalCounted ==
    [][(ReadStep /\ ~IsUnsignedDecimal(entry'.chromosome)) => Counts' = Counts]_vars

----------------------------------------------------------------------------
(* Symmetry of the parents *)

\* C6: isConsistent(father, mother, child) = isConsistent(mother, father,
\* child) for two-character genotypes, and the Mendelian counts of an input
\* equal those of the same input with father and mother exchanged in every
\* entry.
C6_ParentsSymmetric ==
    /\ (call = "isConsistent" /\ pc = "done") =>
          /\ twin.entry.father = entry.mother
          /\ twin.entry.mother = entry.father
          /\ twin.result.value = result.value
    /\ call = "analyzeMendelianConsistency" =>
          /\ twin.entry = SwapParents(entry)
          /\ twin.frame = frame
          /\ twin.result = result

\* father AG, mother CT, child CA: consistent by the second assignment, and
\* consistent by the first one when the parents are exchanged
C6_Witness ==
    /\ call = "isConsistent"
    /\ pc = "done"
    /\ entry.father = <<"A", "G">>
    /\ entry.mother = <<"C", "T">>
    /\ entry.child = <<"C", "A">>
    /\ twin.entry.father = <<"C", "T">>
    /\ twin.result.value = TRUE

----------------------------------------------------------------------------
(* Properties of analyzeMitochondrial *)

\* the entry is compared by the mitochondrial loop
MitochondrialRetained(e) ==
    e.chromosome = <<"M", "T">> /\ e.mother # << >> /\ e.son1 # << >> /\ e.son2 # << >>

\* C7: a retained MT entry is a match iff mother, son1 and son2 are the same
\* string character for character; every other retained entry (same alleles
\* in another order, another length) is a mismatch and is appended to
\* mismatchedEntries.
C7_ExactStringMatch ==
    [][(call = "analyzeMitochondrial" /\ ReadStep /\ MitochondrialRetained(entry')) =>
          LET same == /\ Len(entry'.son1) = Len(entry'.mother)
                      /\ Len(entry'.son2) = Len(entry'.mother)
                      /\ \A i \in 1..Len(entry'.mother) :
                            /\ entry'.son1[i] = entry'.mother[i]
                            /\ entry'.son2[i] = entry'.mother[i]
          IN  /\ same =>
                   /\ frame'.matches = frame.matches + 1
                   /\ frame'.mismatches = frame.mismatches
                   /\ frame'.mismatchedEntries = frame.mismatchedEntries
              /\ ~same =>
                   /\ frame'.matches = frame.matches
                   /\ frame'.mismatches = frame.mismatches + 1
                   /\ frame'.mismatchedEntries = Append(frame.mismatchedEntries, n')]_vars

\* mother AG, son1 GA, son2 AG on MT was counted as a mismatch
C7_Witness ==
    /\ call = "analyzeMitochondrial"
    /\ n = 1
    /\ entry.chromosome = <<"M", "T">>
    /\ entry.mother = <<"A", "G">>
    /\ entry.son1 = <<"G", "A">>
    /\ entry.son2 = <<"A", "G">>
    /\ frame.mismatches = 1
    /\ frame.mismatchedEntries = <<1>>

\* C8: analyzeMitochondrial counts exactly the entries whose chromosome is
\* MT and whose mother, son1 and son2 are non-empty: each adds 1 to
\* matches + mismatches, every other entry changes nothing, and the returned
\* total is matches + mismatches.
C8_CountsRetainedMT ==
    [][call = "analyzeMitochondrial" =>
          /\ ReadStep =>
                IF MitochondrialRetained(entry')
                THEN frame'.matches + frame'.mismatches
                         = frame.matches + frame.mismatches + 1
                ELSE frame' = frame
          /\ ReturnStep =>
                /\ result'.matches = frame.matches
                /\ result'.mismatches = frame.mismatches
                /\ result'.total = result'.matches + result'.mismatches]_vars

\* of a complete MT entry followed by an entry of chromosome 1 with the same
\* calls, only the first was counted
C8_Witness ==
    /\ call = "analyzeMitochondrial"
    /\ pc = "done"
    /\ n = 2
    /\ entry.chromosome = <<"1">>
    /\ entry.mother = <<"A">>
    /\ entry.son1 = <<"A">>
    /\ entry.son2 = <<"A">>
    /\ result.total = 1
    /\ result.matches = 1

\* C9: two inputs that differ only in father fields give the same total,
\* matches and mismatches and the same positions in mismatchedEntries.
C9_FatherIgnored ==
    call = "analyzeMitochondrial" =>
        /\ twin.entry = [entry EXCEPT !.father = twin.entry.father]
        /\ twin.frame = frame
        /\ twin.result = result

\* a mismatching MT entry whose father has a call in one input and none in
\* the other
C9_Witness ==
    /\ call = "analyzeMitochondrial"
    /\ pc = "done"
    /\ entry.chromosome = <<"M", "T">>
    /\ entry.father = <<"A">>
    /\ twin.entry.father = << >>
    /\ result.mismatches = 1
    /\ twin.result.mismatchedEntries = <<n>>

----------------------------------------------------------------------------
(* Properties of analyzeSiblingSharing *)

\* number of occurrences of the character c in the string str
Occurrences(str, c) == Cardinality({i \in DOMAIN str : str[i] = c})

Min(a, b) == IF a <= b THEN a ELSE b

RECURSIVE SumOfMin(_, _, _)
\* sum over the characters of cs of the smaller number of occurrences
SumOfMin(cs, a, b) ==
    IF cs = {} THEN 0
    ELSE LET c == CHOOSE c \in cs : TRUE
         IN  Min(Occurrences(a, c), Occurrences(b, c)) + SumOfMin(cs \ {c}, a, b)

\* size of the multiset intersection of the characters of two strings
MultisetIntersection(a, b) == SumOfMin({a[i] : i \in DOMAIN a}, a, b)

\* the entry is compared by the sibling loop
SiblingRetained(e) == IsAutosomal(e) /\ Len(e.son1) = 2 /\ Len(e.son2) = 2

\* C10: for two-character son1 and son2 the shared-allele count of the entry
\* is the size of the multiset intersection of the two allele pairs, a value
\* in {0, 1, 2}: AA/AA gives 2, AA/AG gives 1, AA/GG gives 0, AG/GA gives 2.
C10_SharedIsMultisetIntersection ==
    (call = "analyzeSiblingSharing" /\ n > 0 /\ SiblingRetained(entry)) =>
        /\ frame.shared = MultisetIntersection(entry.son1, entry.son2)
        /\ frame.shared \in {0, 1, 2}
        /\ (entry.son1 = <<"A", "A">> /\ entry.son2 = <<"A", "A">>) => frame.shared = 2
        /\ (entry.son1 = <<"A", "A">> /\ entry.son2 = <<"A", "G">>) => frame.shared = 1
        /\ (entry.son1 = <<"A", "A">> /\ entry.son2 = <<"G", "G">>) => frame.shared = 0
        /\ (entry.son1 = <<"A", "G">> /\ entry.son2 = <<"G", "A">>) => frame.shared = 2

\* son1 AA against son2 AG shares one allele
C10_Witness ==
    /\ call = "analyzeSiblingSharing"
    /\ n > 0
    /\ SiblingRetained(entry)
    /\ entry.son1 = <<"A", "A">>
    /\ entry.son2 = <<"A", "G">>
    /\ frame.shared = 1


\* C11: exchanging son1 and son2 in every entry gives the same totalSNPs,
\* the same matches and the same matchPercentage.
C11_SiblingsSymmetric ==
    call = "analyzeSiblingSharing" =>
        /\ twin.entry = SwapSons(entry)
        /\ twin.frame.total = frame.total
        /\ twin.frame.matches = frame.matches
        /\ pc = "done" =>
              /\ twin.result.totalSNPs = result.totalSNPs
              /\ twin.result.matches = result.matches
              /\ twin.result.matchPercentage = result.matchPercentage

\* son1 AA and son2 AG in one input, son1 AG and son2 AA in the other: both
\* reports count one half
C11_Witness ==
    /\ call = "analyzeSiblingSharing"
    /\ pc = "done"
    /\ n = 1
    /\ entry.son1 = <<"A", "A">>
    /\ entry.son2 = <<"A", "G">>
    /\ twin.entry.son1 = <<"A", "G">>
    /\ result.matches = 1
    /\ twin.result.matches = 1
    /\ result.totalSNPs = 1

----------------------------------------------------------------------------
(* Properties of estimateHaplogroups *)

\* a rule has just been scanned
ScanStep == call = "estimateHaplogroups" /\ frame'.rule = frame.rule + 1

\* C13: the genotype stored for the position of an MT entry is the mother's
\* when it is non-empty and son1's when the mother's is empty; when both are
\* empty the entry stores nothing.
C13_MotherElseSon1 ==
    [][(call = "estimateHaplogroups" /\ ReadStep /\ entry'.chromosome = <<"M", "T">>) =>
          LET before == frame.mtEntries
              after == frame'.mtEntries
              p == entry'.position
          IN  /\ entry'.mother # << >> =>
                    p \in DOMAIN after /\ after[p] = entry'.mother
              /\ (entry'.mother = << >> /\ entry'.son1 # << >>) =>
                    p \in DOMAIN after /\ after[p] = entry'.son1
              /\ (entry'.mother = << >> /\ entry'.son1 = << >>) => after = before
              /\ \A q \in DOMAIN after :
                    q # p => q \in DOMAIN before /\ after[q] = before[q]]_vars

\* an MT entry without a call of the mother: son1's call C is stored
C13_Witness ==
    /\ call = "estimateHaplogroups"
    /\ n = 1
    /\ entry.chromosome = <<"M", "T">>
    /\ entry.mother = << >>
    /\ entry.son1 = <<"C">>
    /\ entry.position \in DOMAIN frame.mtEntries
    /\ frame.mtEntries[entry.position] = <<"C">>

\* the markers of a rule whose position has a non-empty genotype in the Map
TestedMarkers(rule, map) ==
    {j \in DOMAIN rule.markers :
        rule.markers[j].position \in DOMAIN map /\ map[rule.markers[j].position] # << >>}

\* sub is a substring of str
Contains(str, sub) ==
    \E i \in 1..(Len(str) - Len(sub) + 1) :
        \A k \in 1..Len(sub) : str[i + k - 1] = sub[k]

\* the tested markers whose genotype contains the expected allele
MatchedMarkers(rule, map) ==
    {j \in TestedMarkers(rule, map) :
        Contains(map[rule.markers[j].position], rule.markers[j].allele)}

\* C14: for every rule, tested is the number of its markers whose position
\* has a non-empty genotype in the lookup and matched the number of those
\* whose genotype contains the expected allele; matched <= tested <= number
\* of markers; a rule with tested = 0 is never selected.
C14_TestedAndMatched ==
    [][ScanStep =>
          LET rule == frame.mtRules[frame'.rule] IN
          /\ frame'.total = Cardinality(TestedMarkers(rule, frame.mtEntries))
          /\ frame'.matches = Cardinality(MatchedMarkers(rule, frame.mtEntries))
          /\ frame'.matches <= frame'.total
          /\ frame'.total <= Len(rule.markers)
          /\ frame'.total = 0 => frame'.bestMatch = frame.bestMatch]_vars

\* rule H11 was scanned with three of its four markers tested and two matched
C14_Witness ==
    /\ call = "estimateHaplogroups"
    /\ pc = "rules"
    /\ frame.rule = 5
    /\ frame.total = 3
    /\ frame.matches = 2

\* the haplogroup names of the table
RuleNames == {mtRules[i].haplogroup : i \in DOMAIN mtRules}

Tested(i) == Cardinality(TestedMarkers(mtRules[i], frame.mtEntries))

Matched(i) == Cardinality(MatchedMarkers(mtRules[i], frame.mtEntries))

\* rule i is a candidate: tested > 0 and at least 50 percent matched
Candidate(i) == Tested(i) > 0 /\ 100 * Matched(i) >= 50 * Tested(i)

Candidates == {i \in DOMAIN mtRules : Candidate(i)}

\* C16: the returned rule has the maximum matched count over all candidate
\* rules, whatever their percentages and their order in the table;
\* percentage decides only between candidates with equal matched counts.
C16_MoreMatchedWins ==
    (call = "estimateHaplogroups" /\ pc = "done" /\ Candidates # {}) =>
        /\ \E i \in Candidates :
              /\ result.maternal = mtRules[i].haplogroup
              /\ result.details.matchCount = Matched(i)
              /\ result.details.totalmarkers = Tested(i)
        /\ \A i \in Candidates :
              /\ result.details.matchCount >= Matched(i)
              /\ Matched(i) = result.details.matchCount =>
                    result.details.totalmarkers <= Tested(i)

\* H11 with 2 of 3 matched is returned although the earlier rule H has 1 of 1
C16_Witness ==
    /\ call = "estimateHaplogroups"
    /\ pc = "done"
    /\ result.maternal = "H11"
    /\ result.details.matchCount = 2
    /\ result.details.totalmarkers = 3
    /\ Candidate(1)
    /\ Matched(1) = 1
    /\ Tested(1) = 1

\* score of rule i, times Tested(i): matched * 100 + 100 * matched / tested
ScoreGreater(i, j) ==
    (Matched(i) * 100 * Tested(i) + 100 * Matched(i)) * Tested(j)
        > (Matched(j) * 100 * Tested(j) + 100 * Matched(j)) * Tested(i)

\* C17: the rules are scanned in table order and the best match is replaced
\* only on a strictly greater score: the returned rule is the earliest-listed
\* of the candidates with the maximum score.
C17_EarliestOfBest ==
    /\ [][ScanStep =>
            /\ frame'.mtRules = frame.mtRules
            /\ frame'.bestMatch # frame.bestMatch =>
                  /\ frame'.bestMatch.haplogroup = frame.mtRules[frame'.rule].haplogroup
                  /\ RatioGreater(
                        RatioPlus(frame'.bestMatch.matches * 100, frame'.bestMatch.percentage),
                        RatioPlus(frame.bestMatch.matches * 100, frame.bestMatch.percentage))]_vars
    /\ []((call = "estimateHaplogroups" /\ pc = "done" /\ Candidates # {}) =>
            \E i \in Candidates :
                /\ \A j \in Candidates : ~ScoreGreater(j, i)
                /\ \A j \in Candidates : j < i => ScoreGreater(i, j)
                /\ result.maternal = mtRules[i].haplogroup
                /\ result.details.description = mtRules[i].description)

\* position 7028 alone is tested and matches: H, H7, H7a, H7a1, H11, H11a and
\* H11a2 tie with 1 of 1, and H, listed first, is returned
C17_Witness ==
    /\ call = "estimateHaplogroups"
    /\ pc = "done"
    /\ DOMAIN frame.mtEntries = {7028}
    /\ Candidate(1)
    /\ Candidate(5)
    /\ ~ScoreGreater(1, 5)
    /\ ~ScoreGreater(5, 1)
    /\ result.maternal = "H"

\* C18 as stated: when no rule is a candidate the returned label is exactly
\* "Undetermined", with matched count 0, tested count 0 and an empty
\* description.
C18_LabelUndetermined ==
    (call = "estimateHaplogroups" /\ pc = "done" /\ Candidates = {}) =>
        /\ result.maternal = "Undetermined"
        /\ result.details.matchCount = 0
        /\ result.details.totalmarkers = 0
        /\ result.details.description = ""

\* C18 amended: when no rule is a candidate the best match keeps the
\* haplogroup "Undetermined" and the returned maternal label is
\* "Undetermined (Try external tool)", with matched count 0, tested count 0,
\* percentage 0 and an empty description.
C18_LabelTryExternalTool ==
    (call = "estimateHaplogroups" /\ pc = "done" /\ Candidates = {}) =>
        /\ frame.bestMatch.haplogroup = "Undetermined"
        /\ result.maternal = "Undetermined (Try external tool)"
        /\ result.details.matchCount = 0
        /\ result.details.totalmarkers = 0
        /\ result.details.percentage.num = 0
        /\ result.details.percentage.den > 0
        /\ result.details.description = ""

\* rule H was tested (position 7028 holds A) but nothing matched, and no
\* other rule is a candidate
C18_Witness ==
    /\ call = "estimateHaplogroups"
    /\ pc = "done"
    /\ Candidates = {}
    /\ Tested(1) = 1
    /\ Matched(1) = 0
    /\ result.maternal = "Undetermined (Try external tool)"

\* C19: on the empty array every analysis returns zero counts and defined
\* zero percentages.
C19_EmptyInput ==
    (pc = "done" /\ n = 0) =>
        /\ call = "analyzeMendelianConsistency" =>
              /\ result.totalSNPs = 0
              /\ result.consistent = 0
              /\ result.inconsistent = 0
              /\ result.inconsistentEntries = << >>
        /\ call = "analyzeMitochondrial" =>
              /\ result.total = 0
              /\ result.matches = 0
              /\ result.mismatches = 0
        /\ call = "analyzeSiblingSharing" =>
              /\ result.totalSNPs = 0
              /\ result.matches = 0
              /\ result.matchPercentage.num = 0
              /\ result.matchPercentage.den > 0
        /\ call = "estimateHaplogroups" =>
              /\ result.details.matchCount = 0
              /\ result.details.totalmarkers = 0
              /\ result.details.percentage.num = 0
              /\ result.details.percentage.den > 0

\* analyzeSiblingSharing has returned for the empty array
C19_Witness ==
    /\ call = "analyzeSiblingSharing"
    /\ pc = "done"
    /\ n = 0
    /\ result.totalSNPs = 0
    /\ result.matchPercentage.num = 0

\* the two tables are equal but for the weights of their markers
SameButWeights(rulesA, rulesB) ==
    /\ Len(rulesA) = Len(rulesB)
    /\ \A i \in DOMAIN rulesA :
          /\ rulesA[i].haplogroup = rulesB[i].haplogroup
          /\ rulesA[i].description = rulesB[i].description
          /\ Len(rulesA[i].markers) = Len(rulesB[i].markers)
          /\ \A j \in DOMAIN rulesA[i].markers :
                /\ rulesA[i].markers[j].position = rulesB[i].markers[j].position
                /\ rulesA[i].markers[j].allele = rulesB[i].markers[j].allele

\* C20: two rule tables that differ only in marker weights give, on the same
\* entries, the same label, matched count, tested count, percentage and
\* description.
C20_WeightsIgnored ==
    call = "estimateHaplogroups" =>
        /\ SameButWeights(frame.mtRules, twin.frame.mtRules)
        /\ twin.entry = entry
        /\ twin.frame.bestMatch = frame.bestMatch
        /\ pc = "done" =>
              /\ twin.result.maternal = result.maternal
              /\ twin.result.details = result.details

\* H11 is returned with 2 of 3 matched by both tables although the weights of
\* its markers differ
C20_Witness ==
    /\ call = "estimateHaplogroups"
    /\ pc = "done"
    /\ result.maternal = "H11"
    /\ result.details.matchCount = 2
    /\ twin.result.maternal = "H11"
    /\ \E j \in DOMAIN mtRules[5].markers :
          twin.frame.mtRules[5].markers[j].weight # frame.mtRules[5].markers[j].weight

----------------------------------------------------------------------------
(* Properties of the reports as folds over the array *)

\* C21: duplicates are counted, not deduplicated: every count of the
\* Mendelian, mitochondrial and sibling reports for the concatenation of two
\* arrays is the sum of the counts for the two arrays.
C21_CountsAdditive ==
    pc = "done" =>
        /\ call = "analyzeMendelianConsistency" =>
              /\ result.totalSNPs = twin.first.result.totalSNPs + twin.second.result.totalSNPs
              /\ result.consistent = twin.first.result.consistent + twin.second.result.consistent
              /\ result.inconsistent =
                    twin.first.result.inconsistent + twin.second.result.inconsistent
        /\ call = "analyzeMitochondrial" =>
              /\ result.total = twin.first.result.total + twin.second.result.total
              /\ result.matches = twin.first.result.matches + twin.second.result.matches
              /\ result.mismatches = twin.first.result.mismatches + twin.second.result.mismatches
        /\ call = "analyzeSiblingSharing" =>
              /\ result.totalSNPs = twin.first.result.totalSNPs + twin.second.result.totalSNPs
              /\ result.matches = twin.first.result.matches + twin.second.result.matches

\* a consistent record passed once in each part counts twice in the whole
C21_Witness ==
    /\ call = "analyzeMendelianConsistency"
    /\ pc = "done"
    /\ twin.first.n = 1
    /\ twin.second.n = 1
    /\ twin.first.result.consistent = 1
    /\ twin.second.result.consistent = 1
    /\ result.consistent = 2
    /\ result.totalSNPs = 2

RECURSIVE AloneLocals(_, _, _, _)
\* the locals of analysis a run alone on arr, after the elements from place i on
AloneLocals(a, f, arr, i) ==
    IF i > Len(arr) THEN f
    ELSE AloneLocals(a,
                     IF a = "estimateHaplogroups" THEN HaplogroupElement(f, arr[i])
                     ELSE AnalysisElement(a, f, arr[i], i),
                     arr, i + 1)

\* the report of analysis a run alone on arr
Alone(a, arr) ==
    IF a = "estimateHaplogroups"
    THEN HaplogroupResult(ScanRules(AloneLocals(a, HaplogroupLocals(mtRules), arr, 1)))
    ELSE AnalysisResult(a, AloneLocals(a, AnalysisLocals(a), arr, 1))

\* C22: the four analyses share no mutable state and do not modify their
\* input: in every interleaving over the same array each returns the report
\* it returns when run alone, and the array and the rule table stay as they
\* were.
C22_AnalysesIndependent ==
    call = "Dashboard" =>
        /\ frame.entries = twin.entries
        /\ frame.mtRules = twin.mtRules
        /\ \A a \in DOMAIN frame.task :
              frame.task[a].pc = "done" => frame.task[a].result = Alone(a, twin.entries)

\* all four have returned on an array of an autosomal and an MT record, and
\* the component has rendered their reports
C22_Witness ==
    /\ call = "Dashboard"
    /\ pc = "done"
    /\ Len(frame.entries) = 2
    /\ result.mendelian.inconsistent = 1
    /\ result.mitochondrial.matches = 1
    /\ result.sibling.totalSNPs = 1
    /\ result.haplogroups.maternal = "H"

----------------------------------------------------------------------------
(* Properties of parseGenomeData *)

\* the line makes a record: it has a first field, that field does not begin
\* with #, and there are at least 7 fields
MakesRecord(line) ==
    /\ Len(line.fields) >= 7
    /\ line.fields[1][1] # "#"

RECURSIVE RecordLines(_)
\* the lines that make a record, in input order
RecordLines(lines) ==
    IF Len(lines) = 0 THEN << >>
    ELSE IF MakesRecord(Head(lines)) THEN <<Head(lines)>> \o RecordLines(Tail(lines))
    ELSE RecordLines(Tail(lines))

\* the no-call tokens
NoCalls == {<<"-", "-">>, <<"_", "_">>}

\* the genotype field of a record made from the token
Cleaned(token) == IF token \in NoCalls THEN << >> ELSE token

\* C23: parseGenomeData produces exactly one record per line that is not
\* blank, does not start with # (white space around the line set aside) and
\* has at least 7 white-space-separated fields, in input order, with the
\* fields taken in the order rsid, chromosome, position, father, son1, son2,
\* mother; every other line produces no record; metadata.count is the number
\* of records.
C23_OneRecordPerMarkerLine ==
    (call = "parseGenomeData" /\ pc = "done") =>
        LET expected == RecordLines(twin.lines) IN
        /\ Len(result.entries) = Len(expected)
        /\ result.metadata.count = Len(expected)
        /\ \A i \in DOMAIN expected :
              LET fields == expected[i].fields
                  e == result.entries[i]
              IN  /\ e.rsid = fields[1]
                  /\ e.chromosome = fields[2]
                  /\ e.position = parseIntRadix10(fields[3])
                  /\ e.father = Cleaned(fields[4])
                  /\ e.son1 = Cleaned(fields[5])
                  /\ e.son2 = Cleaned(fields[6])
                  /\ e.mother = Cleaned(fields[7])

\* an indented comment with seven fields gave no record and the eight-field
\* line after it gave one
C23_Witness ==
    /\ call = "parseGenomeData"
    /\ pc = "done"
    /\ Len(twin.lines) = 2
    /\ twin.lines[1].fields # << >>
    /\ Head(twin.lines[1].text) = " "
    /\ twin.lines[1].fields[1] = <<"#", "r">>
    /\ Len(twin.lines[2].fields) = 8
    /\ result.metadata.count = 1
    /\ result.entries[1].chromosome = <<"2">>

\* C24: in every record each of father, son1, son2 and mother is the empty
\* string when the input token is -- or __ and the input token otherwise; no
\* record carries -- or __ in a genotype field.
C24_NoCallsCleaned ==
    (call = "parseGenomeData" /\ pc = "done") =>
        LET expected == RecordLines(twin.lines) IN
        /\ Len(result.entries) = Len(expected)
        /\ \A i \in DOMAIN result.entries :
              LET fields == expected[i].fields
                  e == result.entries[i]
              IN  /\ e.father = Cleaned(fields[4])
                  /\ e.son1 = Cleaned(fields[5])
                  /\ e.son2 = Cleaned(fields[6])
                  /\ e.mother = Cleaned(fields[7])
                  /\ {e.father, e.son1, e.son2, e.mother} \cap NoCalls = {}

\* a record made from -- __ -_ AG: two fields emptied, two kept as they are
C24_Witness ==
    /\ call = "parseGenomeData"
    /\ pc = "done"
    /\ Len(twin.lines) = 1
    /\ twin.lines[1].fields =
          MarkerFields(<<"r">>, <<"1">>, <<"5">>, <<"-", "-">>, <<"_", "_">>, <<"-", "_">>, AG)
    /\ result.entries[1].father = << >>
    /\ result.entries[1].son1 = << >>
    /\ result.entries[1].son2 = <<"-", "_">>
    /\ result.entries[1].mother = AG

----------------------------------------------------------------------------
(* Properties of the Dashboard *)

\* C25: when analyzeMendelianConsistency checked no record (totalSNPs = 0)
\* the consistency rate and the error rate computed by the Dashboard are 0,
\* not NaN.
C25_RatesDefined ==
    (call = "Dashboard" /\ pc = "done" /\ result.mendelian.totalSNPs = 0) =>
        /\ ~result.errorRate.nan
        /\ ~result.errorRate.infinite
        /\ result.errorRate.num = 0
        /\ ~result.consistencyRate.nan
        /\ ~result.consistencyRate.infinite
        /\ result.consistencyRate.num = 0

----------------------------------------------------------------------------
(* Properties of the diagnostic lists *)

\* the list names elements of the first k places of the input, in input order
\* and none twice
InInputOrder(list, k) ==
    /\ \A i \in DOMAIN list : list[i] \in 1..k
    /\ \A i, j \in DOMAIN list : i < j => list[i] < list[j]

\* C26: inconsistentEntries is a subsequence of the input in input order, as
\* long as inconsistent, made of exactly the checked records in which son1 or
\* son2 fails isConsistent; mismatchedEntries is a subsequence of the input
\* in input order, as long as mismatches.
C26_ListsMirrorCounts ==
    /\ [](call = "analyzeMendelianConsistency" =>
            /\ InInputOrder(frame.inconsistentEntries, n)
            /\ Len(frame.inconsistentEntries) = frame.inconsistent
            /\ pc = "done" =>
                  /\ result.inconsistentEntries = frame.inconsistentEntries
                  /\ Len(result.inconsistentEntries) = result.inconsistent)
    /\ [](call = "analyzeMitochondrial" =>
            /\ InInputOrder(frame.mismatchedEntries, n)
            /\ Len(frame.mismatchedEntries) = frame.mismatches
            /\ pc = "done" =>
                  /\ result.mismatchedEntries = frame.mismatchedEntries
                  /\ Len(result.mismatchedEntries) = result.mismatches)
    /\ [][(call = "analyzeMendelianConsistency" /\ ReadStep) =>
            frame'.inconsistentEntries =
                IF /\ MendelianRetained(entry')
                   /\ \/ ~isConsistent(entry'.father, entry'.mother, entry'.son1)
                      \/ ~isConsistent(entry'.father, entry'.mother, entry'.son2)
                THEN Append(frame.inconsistentEntries, n + 1)
                ELSE frame.inconsistentEntries]_vars

\* of two records read, a consistent one and then one whose son2 fails, the
\* list returned holds the second only
C26_Witness ==
    /\ call = "analyzeMendelianConsistency"
    /\ pc = "done"
    /\ n = 2
    /\ result.consistent = 1
    /\ result.inconsistent = 1
    /\ result.inconsistentEntries = <<2>>
    /\ isConsistent(entry.father, entry.mother, entry.son1)
    /\ ~isConsistent(entry.father, entry.mother, entry.son2)

----------------------------------------------------------------------------
(* Properties of the lookup of estimateHaplogroups *)

\* the call of a record: the mother's, else son1's
CallOf(e) == IF e.mother # << >> THEN e.mother ELSE e.son1

\* the places among the first k of arr of the MT records at position p with
\* a non-empty call
CalledAt(arr, k, p) ==
    {i \in 1..k : /\ arr[i].chromosome = <<"M", "T">>
                  /\ arr[i].position = p
                  /\ CallOf(arr[i]) # << >>}

\* the greatest element of a non-empty set of numbers
Maximum(S) == CHOOSE x \in S : \A y \in S : y <= x

\* C27: when several MT records share a position the lookup holds for it the
\* call (mother's, else son1's) of the last record in input order whose call
\* is non-empty; a later record at that position with mother and son1 empty
\* neither removes nor changes it.
C27_LastCallWins ==
    call = "Dashboard" =>
        LET t == frame.task["estimateHaplogroups"]
            read == IF t.pc = "done" THEN Len(twin.entries) ELSE t.i
        IN  \A p \in {twin.entries[i].position : i \in DOMAIN twin.entries} :
                LET called == CalledAt(twin.entries, read, p) IN
                IF called = {}
                THEN p \notin DOMAIN t.locals.mtEntries
                ELSE /\ p \in DOMAIN t.locals.mtEntries
                     /\ t.locals.mtEntries[p] = CallOf(twin.entries[Maximum(called)])

\* two MT records at position 7028 were read, the first with the mother's
\* call C, the second with neither call: the lookup still holds C
C27_Witness ==
    /\ call = "Dashboard"
    /\ Len(twin.entries) = 2
    /\ frame.task["estimateHaplogroups"].i = 2
    /\ twin.entries[1].chromosome = <<"M", "T">>
    /\ twin.entries[1].position = 7028
    /\ twin.entries[1].mother = <<"C">>
    /\ twin.entries[2].chromosome = <<"M", "T">>
    /\ twin.entries[2].position = 7028
    /\ CallOf(twin.entries[2]) = << >>
    /\ frame.task["estimateHaplogroups"].locals.mtEntries[7028] = <<"C">>

\* C28: the result of estimateHaplogroups depends only on the position,
\* mother and son1 of the MT records: two arrays that differ only in fathers,
\* son2s, rsids or in records of other chromosomes (Y included) give the same
\* maternal label, details and paternal text.
C28_OnlyMTMotherSon1 ==
    (call = "estimateHaplogroups" /\ pc = "done") =>
        /\ twin.result.maternal = result.maternal
        /\ twin.result.details = result.details
        /\ twin.result.paternal = result.paternal

\* H11 is returned for both arrays; the second has one record more (of
\* chromosome Y) and its last record is not the last record of the first
C28_Witness ==
    /\ call = "estimateHaplogroups"
    /\ pc = "done"
    /\ n = 2
    /\ twin.n = 3
    /\ twin.entry # entry
    /\ result.maternal = "H11"
    /\ twin.result.maternal = "H11"

----------------------------------------------------------------------------
(* Properties of the genome-art components *)

\* C29: at most one render chain is live: when generateArt starts or the
\* component unmounts the processBatch callback scheduled before is
\* cancelled and never draws again, so at most one animation-frame request
\* is pending in every reachable state.
C29_OneRenderChain ==
    /\ [](call = "GenomeArt" =>
            /\ Cardinality(frame.pending) <= 1
            /\ \A r \in frame.pending :
                  /\ pc = "mounted"
                  /\ r.closure = Len(frame.closures)
                  /\ r.id = frame.reqIdRef)
    /\ [][call = "GenomeArt" =>
            /\ Len(frame'.closures) # Len(frame.closures) =>
                  frame'.pending \cap frame.pending = {}
            /\ pc' = "gone" => frame'.pending = {}
            /\ \A k \in DOMAIN frame.draws :
                  frame'.draws[k] # frame.draws[k] =>
                      /\ pc = "mounted"
                      /\ k = Len(frame.closures)]_vars

\* the first chain drew one of its two batches and was replaced when the
\* effect ran again; the second chain has drawn and the first has not drawn
\* since
C29_Witness ==
    /\ call = "GenomeArt"
    /\ pc = "mounted"
    /\ Len(frame.closures) = 2
    /\ frame.closures[1].length = 2
    /\ frame.closures[1].i = 1
    /\ frame.draws = <<1, 1>>
    /\ Cardinality(frame.pending) = 1

----------------------------------------------------------------------------
(* Properties of App *)

\* C30: every call of handleDataLoaded sets loading to true and is
\* eventually followed, once its timer fires, by loading = false, whether
\* parseGenomeData succeeds or throws; when it throws, data keeps its
\* previous value.
C30_LoadingEnds ==
    /\ [][(call = "App" /\ n' = n + 1) => frame'.loading = TRUE]_vars
    /\ [][(call = "App" /\ PendingTimers # {} /\ frame'.timers # frame.timers /\ n' = n) =>
            LET k == CHOOSE k \in PendingTimers : frame'.timers[k].fired IN
            /\ frame'.loading = FALSE
            /\ ~frame.timers[k].content.isString => frame'.data = frame.data]_vars
    /\ \A k \in 1..MaxCalls :
          (call = "App" /\ k \in DOMAIN frame.timers /\ ~frame.timers[k].fired)
              ~> (k \in DOMAIN frame.timers /\ frame.timers[k].fired /\ ~frame.loading)

\* the first call parsed a file of one record; the second call's parse threw:
\* loading is false again and data is still the first file's
C30_Witness ==
    /\ call = "App"
    /\ Len(frame.timers) = 2
    /\ frame.timers[1].fired
    /\ frame.timers[2].fired
    /\ frame.timers[1].content.isString
    /\ ~frame.timers[2].content.isString
    /\ ~frame.loading
    /\ frame.data # Null
    /\ frame.data.metadata.count = 1
    /\ twin.previous = frame.data

====
